---- MODULE Spec2Model ----
(***************************************************************************)
(* A model of bot.py: the feedback store (data/feedbacks.json), the map    *)
(* cache (images/cache/), the per-user dialogue (aiogram FSM over          *)
(* MemoryStorage) and the handler tasks of the dispatcher.                 *)
(*                                                                         *)
(* Scheduling.  The dispatcher runs every update in its own asyncio task   *)
(* on one thread.  A task runs without interruption until it awaits a      *)
(* Telegram API call (safe_send_message, safe_answer, safe_edit_message,   *)
(* safe_send_photo); the coroutines of MemoryStorage (state.get_data,      *)
(* state.update_data, state.set_state, state.clear) contain no suspension  *)
(* point, so awaiting them never hands control to another task.  Every     *)
(* action below is one such uninterrupted segment of a handler.            *)
(*                                                                         *)
(* Chats are private chats: the chat id of an update is the id of its      *)
(* sender.                                                                 *)
(***************************************************************************)
EXTENDS Integers, Sequences, FiniteSets, TLC

VARIABLES
    started,          \* main() has reached dp.start_polling
    feedbacks_file,   \* data/feedbacks.json
    cache,            \* images/cache/: file name -> the file (artifact)
    cache_dir,        \* the directory images/cache/ exists
    coordinates_file, \* data/map_coordinates.json
    anonymized,       \* a text and what anonymize_text has made of it
    chosen,           \* history: the user has chosen a type and a location,
                      \* and since then no report was saved for them and
                      \* their state was not cleared
    canvas,           \* the picture of the last generate_map_image call
    now,              \* the clock, datetime.now()
    fsm,              \* MemoryStorage: user -> [state, data]
    tasks,            \* handler tasks suspended in a Telegram API call
    outbox,           \* the last messages sent about reports (the menus and
                      \* prompts of the dialogue are not recorded)
    accepted,         \* history: submissions that passed validation
    issued,           \* history: public_user_id given by each save_feedback
    last              \* history: the last step that read or wrote the files,
                      \* and what it started from

(***************************************************************************)
(* Bounds of the model.                                                    *)
(***************************************************************************)
MaxFeedbacks == 3        \* submissions accepted in one behaviour of the store
MaxSubmissions == 2      \* submissions accepted in one behaviour of the dialogue
MaxTime == 2             \* last reading of the clock
MaxTasks == 2            \* handler tasks suspended at the same time
MaxClock == 7            \* last reading of the clock where maps pile up

(***************************************************************************)
(* Program constants.                                                      *)
(***************************************************************************)
MinTextLen == 5          \* enter_feedback_text: len(text.strip()) < 5
MaxTextLen == 1000       \* enter_feedback_text: len(text) > 1000
PublicIdBase == 1000     \* save_feedback: f"user_{len(feedbacks) + 1000}"
MaxCacheFiles == 5       \* cleanup_old_cache(max_files=5)

Types == {"complaint", "suggestion"}

\* Telegram users of the model; ADMIN_IDS is read from the environment.
Users == {1, 2}
ADMIN_IDS == {1}
\* message.from_user.username: user 1 has one, user 2 has none (None).
Username(u) == IF u = 1 THEN "alice" ELSE "None"

\* Ids of get_locations() used by the model (the seed list has 1..12), and
\* an id no location has.
Locations == {1, 2}
UnknownLocations == {99}

(***************************************************************************)
(* Texts.  A message text is represented by the lengths of its three       *)
(* parts: leading whitespace, the core that starts and ends with a         *)
(* non-whitespace character (empty for a blank text, whose whitespace is   *)
(* then all counted as leading), trailing whitespace.                      *)
(***************************************************************************)
Text(lead, body, trail) == [lead |-> lead, body |-> body, trail |-> trail]
TextLen(t) == t.lead + t.body + t.trail
Strip(t) == Text(0, t.body, 0)

(***************************************************************************)
(* The JSON files.  A file is absent, holds a JSON list, or is corrupt     *)
(* (its content does not parse).                                           *)
(***************************************************************************)
FileAbsent == [st |-> "absent", data |-> <<>>]
FileList(data) == [st |-> "list", data |-> data]
FileCorrupt == [st |-> "corrupt", data |-> <<>>]
\* Content that parses but is not a list of reports: a list with an object
\* that has no "location_id" and no "type", as [{"id": 1}].
Misshapen == <<[id |-> 1]>>

ReadOutcomes == {"ok", "io_error"}
WriteOutcomes == {"ok", "open_fails", "partial"}

\* save_json: open(file_path, 'w') truncates the file, json.dump then writes
\* it piece by piece; every exception is logged and swallowed.
\*   wr = "ok"          the whole list is written
\*   wr = "open_fails"  open raises, the file is untouched
\*   wr = "partial"     the write raises after the truncation
save_json(file, data, wr) ==
    CASE wr = "ok" -> FileList(data)
      [] wr = "open_fails" -> file
      [] wr = "partial" -> FileCorrupt

\* load_json, the value returned: the parsed list, or the default when the
\* file is absent, does not parse (JSONDecodeError) or cannot be read.
load_json(file, default, rd) ==
    IF file.st = "list" /\ rd = "ok" THEN file.data ELSE default

\* load_json, the file it leaves: an absent file is created with the default.
load_json_file(file, default, wr) ==
    IF file.st = "absent" THEN save_json(file, default, wr) ELSE file

get_feedbacks(file, rd) == load_json(file, <<>>, rd)

(***************************************************************************)
(* save_feedback.                                                          *)
(***************************************************************************)
\* a slip: the length of the list left out
constant_id(feedbacks) == PublicIdBase

anonymous_id(feedbacks) == Len(feedbacks) + PublicIdBase


\* a slip: ids counted from 0
new_feedback_from_zero(feedbacks, ty, loc, text, user, time) ==
    [id |-> Len(feedbacks),
     type |-> ty,
     location_id |-> loc,
     text |-> text,
     real_user_id |-> user,
     real_username |-> Username(user),
     public_user_id |-> anonymous_id(feedbacks),
     date |-> time,
     timestamp |-> time]

\* a slip: the public id made from the id of the submitter
new_feedback_id_from_user(feedbacks, ty, loc, text, user, time) ==
    [id |-> Len(feedbacks) + 1,
     type |-> ty,
     location_id |-> loc,
     text |-> text,
     real_user_id |-> user,
     real_username |-> Username(user),
     public_user_id |-> PublicIdBase + user,
     date |-> time,
     timestamp |-> time]

new_feedback(feedbacks, ty, loc, text, user, time) ==
    [id |-> Len(feedbacks) + 1,
     type |-> ty,
     location_id |-> loc,
     text |-> text,
     real_user_id |-> user,
     real_username |-> Username(user),
     public_user_id |-> anonymous_id(feedbacks),
     date |-> time,
     timestamp |-> time]

\* a slip: the new report takes the place of the newest one (a lost update)
overwrite_newest(feedbacks, fb) ==
    IF feedbacks = <<>> THEN <<fb>> ELSE [feedbacks EXCEPT ![Len(feedbacks)] = fb]

append_feedback(feedbacks, fb) == Append(feedbacks, fb)

\* The reports file after save_feedback: get_feedbacks() (which creates an
\* absent file, outcome wr0), then save_json of the extended list.
save_feedback_file(file, ty, loc, text, user, time, rd, wr0, wr) ==
    LET feedbacks == get_feedbacks(file, rd)
        fb == new_feedback(feedbacks, ty, loc, text, user, time)
    IN save_json(load_json_file(file, <<>>, wr0), append_feedback(feedbacks, fb), wr)

(***************************************************************************)
(* get_feedback_counts: one pass over the list, an entry is created the    *)
(* first time its location is met; a type other than "complaint" counts as *)
(* a suggestion.                                                           *)
(***************************************************************************)
NoCounts == [complaints |-> 0, suggestions |-> 0]

\* a slip: every report counted as a complaint
count_as_complaint(c, fb) == [c EXCEPT !.complaints = @ + 1]

count_one(c, fb) ==
    IF fb.type = "complaint"
    THEN [c EXCEPT !.complaints = @ + 1]
    ELSE [c EXCEPT !.suggestions = @ + 1]

RECURSIVE counts_upto(_, _)
counts_upto(feedbacks, i) ==
    IF i = 0 THEN [l \in {} |-> NoCounts]
    ELSE LET counts == counts_upto(feedbacks, i - 1)
             fb == feedbacks[i]
             loc == fb.location_id
             c == IF loc \in DOMAIN counts THEN counts[loc] ELSE NoCounts
         IN [l \in DOMAIN counts \cup {loc} |->
                IF l = loc THEN count_one(c, fb) ELSE counts[l]]

\* a slip: the table starts with an entry for every location
counts_for_every_location(feedbacks) ==
    LET counts == counts_upto(feedbacks, Len(feedbacks))
    IN [l \in DOMAIN counts \cup Locations |->
           IF l \in DOMAIN counts THEN counts[l] ELSE NoCounts]

\* a slip: the newest report is left out
counts_without_newest(feedbacks) ==
    counts_upto(feedbacks, IF Len(feedbacks) = 0 THEN 0 ELSE Len(feedbacks) - 1)

get_feedback_counts(feedbacks) == counts_upto(feedbacks, Len(feedbacks))

\* feedback["location_id"] and feedback["type"] are subscripts: an entry
\* without the key raises KeyError, and nothing in get_feedback_counts
\* catches it.
get_feedback_counts_raises(feedbacks) ==
    \E i \in 1..Len(feedbacks) :
        "location_id" \notin DOMAIN feedbacks[i] \/ "type" \notin DOMAIN feedbacks[i]

(***************************************************************************)
(* The map cache: images/cache/, file name -> what the image shows.  A     *)
(* name is the timestamp of map_<timestamp>.jpg; names sort as numbers.    *)
(***************************************************************************)
NoFiles == [n \in {} |-> NoCounts]

\* a slip: the first max_files names kept, cache_files[max_files:] removed
cleanup_keeping_oldest(files, max_files) ==
    LET names == DOMAIN files
        kept == {n \in names : Cardinality({m \in names : m < n}) < max_files}
    IN [n \in kept |-> files[n]]

\* sorted(os.listdir(...))[:-max_files] are removed.
cleanup_old_cache(files, max_files) ==
    LET names == DOMAIN files
        kept == {n \in names : Cardinality({m \in names : m > n}) < max_files}
    IN IF Cardinality(names) > max_files THEN [n \in kept |-> files[n]] ELSE files

\* a slip: the retention clean-up called in place of the full one
cleanup_keeping_recent(files) == cleanup_old_cache(files, MaxCacheFiles)

cleanup_cache_completely(files) == NoFiles

\* The two clean-ups as calls: whether the call raises, and the directory
\* (exists: images/cache/ is there) and the files it leaves.
cleanup_result(raised, exists, files) ==
    [raised |-> raised, exists |-> exists, files |-> files]

\* a slip: no try around os.listdir, which raises on a missing directory
cleanup_old_cache_unguarded(exists, files, max_files) ==
    cleanup_result(~exists, exists,
                   IF exists THEN cleanup_old_cache(files, max_files) ELSE files)

\* cleanup_old_cache(): os.listdir raises when the directory is missing and
\* the outer except clause swallows it.
cleanup_old_cache_call(exists, files, max_files) ==
    cleanup_result(FALSE, exists,
                   IF exists THEN cleanup_old_cache(files, max_files) ELSE files)

\* cleanup_cache_completely(): the directory is listed only if
\* os.path.exists(MAP_CACHE_DIR).
cleanup_cache_completely_call(exists, files) ==
    cleanup_result(FALSE, exists,
                   IF exists THEN cleanup_cache_completely(files) ELSE files)

\* data/map_coordinates.json holding a table
CoordinatesFile(table) == FileList(table)
\* default_coordinates: an entry for every location of the default list
default_coordinates ==
    [l \in Locations |-> IF l = 1 THEN [x |-> 400, y |-> 300]
                                  ELSE [x |-> 200, y |-> 200]]
DefaultCoordinatesFile == CoordinatesFile(default_coordinates)

\* a slip: the default table laid over the persisted entries
coordinates_defaults_win(file) ==
    LET coordinates == load_json(file, default_coordinates, "ok")
    IN [l \in DOMAIN coordinates \cup Locations |->
           IF l \in DOMAIN default_coordinates THEN default_coordinates[l]
           ELSE coordinates[l]]

\* load_coordinates(), the value returned: the defaults when the file is
\* absent; else the persisted table (the defaults when it does not parse)
\* plus an entry at (512, 512) for every known location lacking one.
coordinates_of(file) ==
    LET coordinates == load_json(file, default_coordinates, "ok")
    IN [l \in DOMAIN coordinates \cup Locations |->
           IF l \in DOMAIN coordinates THEN coordinates[l]
           ELSE [x |-> 512, y |-> 512]]

\* load_coordinates(), the file it leaves: an absent file is created with
\* the defaults, an existing one is not written.
load_coordinates_file(file, wr) ==
    IF file.st = "absent" THEN save_json(file, default_coordinates, wr) ELSE file

load_coordinates == coordinates_of(coordinates_file)
coordinate_ids == DOMAIN load_coordinates

\* generate_map_image: a marker for every location with coordinates whose
\* counts are not both zero, labelled with its counts.
markers(counts) ==
    [l \in {k \in coordinate_ids \cap DOMAIN counts :
               counts[k].complaints # 0 \/ counts[k].suggestions # 0} |-> counts[l]]

(***************************************************************************)
(* generate_map_image, the label of one marker.  Lengths are pixels; the   *)
(* // of Python is \div.                                                   *)
(***************************************************************************)
Max(a, b) == IF a > b THEN a ELSE b
Min(a, b) == IF a < b THEN a ELSE b
Abs(a) == IF a < 0 THEN 0 - a ELSE a

RECURSIVE digits(_)
\* len(str(n)) of a count
digits(n) == IF n < 10 THEN 1 ELSE 1 + digits(n \div 10)

ComplaintColour == <<220, 0, 0, 255>>
SeparatorColour == <<0, 0, 0, 255>>
SuggestionColour == <<0, 180, 0, 255>>
BackgroundColour == <<255, 255, 255, 230>>

\* base_font_size and padding follow the size of the canvas
base_font_size(W, H) == Max(20, Min(W, H) \div 30)
padding(W, H) == Max(10, Min(W, H) \div 50)

\* x = max(50, min(x, map_width - 50))
clamp_center(v, size) == Max(50, Min(v, size - 50))

\* draw.textbbox of a number and of "/" with a font whose glyphs are
\* font.digit and font.slash wide and font.height high; when the measuring
\* raises, the estimates from the font size.  In the dual branch the
\* except clause sets no separator_height: the name keeps what an earlier
\* marker of the same render left in it (sep_h), and is unbound otherwise
\* (sep_h = Unbound), which raises when text_height is computed.
Unbound == -1
number_width(n, font, size, measured) ==
    IF measured THEN digits(n) * font.digit ELSE digits(n) * (size \div 2)
number_height(font, size, measured) == IF measured THEN font.height ELSE size
separator_width(font, size, measured) ==
    IF measured THEN font.slash ELSE size \div 4
separator_height(font, sep_h, measured) == IF measured THEN font.height ELSE sep_h

\* "Проверяем границы" along one axis: the two tests in sequence, both
\* ends moved by the same offset.
\* a slip: only the near end moved
shift_near_end(lo, hi, limit) ==
    LET off1 == IF lo < 10 THEN Abs(lo) + 10 ELSE 0
        off2 == IF hi + off1 > limit - 10 THEN hi + off1 - limit + 10 ELSE 0
    IN [lo |-> lo + off1, hi |-> hi - off2, by |-> off1 - off2]

shift(lo, hi, limit) ==
    LET off1 == IF lo < 10 THEN Abs(lo) + 10 ELSE 0
        off2 == IF hi + off1 > limit - 10 THEN hi + off1 - limit + 10 ELSE 0
    IN [lo |-> lo + off1 - off2, hi |-> hi + off1 - off2, by |-> off1 - off2]

\* rect_x1 .. rect_y2 as first computed around the centre
unclamped(x, y, width, height, W, H) ==
    [x1 |-> x - width \div 2 - padding(W, H),
     y1 |-> y - height \div 2 - padding(W, H),
     x2 |-> x + width \div 2 + padding(W, H),
     y2 |-> y + height \div 2 + padding(W, H)]

\* the rectangle that is drawn, and how far the centre moved with it
background(x, y, width, height, W, H) ==
    LET r == unclamped(x, y, width, height, W, H)
        h == shift(r.x1, r.x2, W)
        v == shift(r.y1, r.y2, H)
    IN [x1 |-> h.lo, y1 |-> v.lo, x2 |-> h.hi, y2 |-> v.hi,
        dx |-> h.by, dy |-> v.by]

\* One call of draw.rectangle or draw.text.
rectangle_call(b) ==
    [call |-> "rectangle", part |-> "background", value |-> <<>>,
     colour |-> BackgroundColour, x |-> b.x1, y |-> b.y1]
\* value: the numbers the text shows
text_call(part, value, colour, x, y) ==
    [call |-> "text", part |-> part, value |-> value, colour |-> colour,
     x |-> x, y |-> y]

\* What the loop body made of one coordinate entry.  status: "drawn",
\* "skipped" (continue) or "raised" (an exception left the loop body);
\* sep_h: separator_height as the body leaves it.
marker_of(status, loc, label, before, rect, calls, sep_h) ==
    [status |-> status, loc |-> loc, label |-> label, before |-> before,
     rect |-> rect, calls |-> calls, sep_h |-> sep_h]
NoRect == [x1 |-> 0, y1 |-> 0, x2 |-> 0, y2 |-> 0]
no_marker(status, loc, sep_h) ==
    marker_of(status, loc, "none", NoRect, NoRect, <<>>, sep_h)

\* Steps of the body of one marker that can raise.
DrawSteps == {"measure", "rectangle", "text"}

\* a slip: the suggestions drawn first, in the place of the complaints
dual_calls_suggestions_first(b, c, complaint_x, separator_x, suggestion_x, y) ==
    <<rectangle_call(b),
      text_call("suggestions", <<c.suggestions>>, SuggestionColour, complaint_x, y),
      text_call("separator", <<>>, SeparatorColour, separator_x, y),
      text_call("complaints", <<c.complaints>>, ComplaintColour, suggestion_x, y)>>

\* the calls that draw a dual label: the background, then the three texts
dual_calls(b, c, complaint_x, separator_x, suggestion_x, y) ==
    <<rectangle_call(b),
      text_call("complaints", <<c.complaints>>, ComplaintColour, complaint_x, y),
      text_call("separator", <<>>, SeparatorColour, separator_x, y),
      text_call("suggestions", <<c.suggestions>>, SuggestionColour, suggestion_x, y)>>

\* has_complaints and has_suggestions.  step: the step that raises for this
\* marker, "none" when none does.
dual_marker(loc, c, cx, cy, W, H, font, step, sep_h) ==
    LET measured == step # "measure"
        size == base_font_size(W, H)
        complaint_width == number_width(c.complaints, font, size, measured)
        suggestion_width == number_width(c.suggestions, font, size, measured)
        sep_width == separator_width(font, size, measured)
        sep_height == separator_height(font, sep_h, measured)
        total_width == complaint_width + sep_width + suggestion_width
        text_height == Max(number_height(font, size, measured), sep_height)
        x == clamp_center(cx, W)
        y == clamp_center(cy, H)
        complaint_x == x - total_width \div 2 + complaint_width \div 2
        separator_x == complaint_x + complaint_width \div 2 + sep_width \div 2
        suggestion_x == separator_x + sep_width \div 2 + suggestion_width \div 2
        before == unclamped(x, y, total_width, text_height, W, H)
        b == background(x, y, total_width, text_height, W, H)
        rect == [x1 |-> b.x1, y1 |-> b.y1, x2 |-> b.x2, y2 |-> b.y2]
    IN IF sep_height = Unbound \/ step = "rectangle"
       THEN no_marker("raised", loc, sep_height)
       ELSE marker_of("drawn", loc, "dual", before, rect,
               IF step = "text"
               THEN <<rectangle_call(b),
                      text_call("fallback", <<c.complaints, c.suggestions>>,
                                SeparatorColour, x + b.dx, y + b.dy)>>
               ELSE dual_calls(b, c, complaint_x + b.dx, separator_x + b.dx,
                               suggestion_x + b.dx, y + b.dy),
               sep_height)

\* only complaints, or only suggestions: one number
single_marker(loc, part, n, colour, cx, cy, W, H, font, step, sep_h) ==
    LET measured == step # "measure"
        size == base_font_size(W, H)
        text_width == number_width(n, font, size, measured)
        text_height == number_height(font, size, measured)
        x == clamp_center(cx, W)
        y == clamp_center(cy, H)
        before == unclamped(x, y, text_width, text_height, W, H)
        b == background(x, y, text_width, text_height, W, H)
        rect == [x1 |-> b.x1, y1 |-> b.y1, x2 |-> b.x2, y2 |-> b.y2]
    IN IF step \in {"rectangle", "text"}
       THEN no_marker("raised", loc, sep_h)
       ELSE marker_of("drawn", loc, part, before, rect,
               <<rectangle_call(b), text_call(part, <<n>>, colour, x + b.dx, y + b.dy)>>,
               sep_h)

\* a slip: a location with both kinds labelled with its complaints only
marker_complaints_first(loc, c, cx, cy, W, H, font, step, sep_h) ==
    IF c.complaints > 0
    THEN single_marker(loc, "complaints", c.complaints, ComplaintColour,
                       cx, cy, W, H, font, step, sep_h)
    ELSE IF c.suggestions > 0
    THEN single_marker(loc, "suggestions", c.suggestions, SuggestionColour,
                       cx, cy, W, H, font, step, sep_h)
    ELSE no_marker("skipped", loc, sep_h)

\* the body of the marker loop for one coordinate entry
marker(loc, c, cx, cy, W, H, font, step, sep_h) ==
    IF c.complaints = 0 /\ c.suggestions = 0
    THEN no_marker("skipped", loc, sep_h)
    ELSE IF c.complaints > 0 /\ c.suggestions > 0
    THEN dual_marker(loc, c, cx, cy, W, H, font, step, sep_h)
    ELSE IF c.complaints > 0
    THEN single_marker(loc, "complaints", c.complaints, ComplaintColour,
                       cx, cy, W, H, font, step, sep_h)
    ELSE single_marker(loc, "suggestions", c.suggestions, SuggestionColour,
                       cx, cy, W, H, font, step, sep_h)

\* coordinates.items(): the entries in the order of their ids.
coordinate_seq ==
    CHOOSE q \in [1..Cardinality(coordinate_ids) -> coordinate_ids] :
        \A i, j \in 1..Cardinality(coordinate_ids) : i < j => q[i] < q[j]

\* What a render meets outside the program:
\*   image  Image.open(MAP_IMAGE): "ok" (a W x H image), "not_found"
\*          (FileNotFoundError, the placeholder is made),
\*          "not_found_no_placeholder" (and making the placeholder raises),
\*          "unreadable" (any other exception: not an image, no permission)
\*   font   the metrics of the font loaded
\*   fault  the marker and the step of its drawing that raises, if any
\*   wr     map_img.save: "ok", "open_fails" (nothing is written; also a
\*          failed write of a file the library created and removed again),
\*          "partial" (the write fails and an incomplete file stays)
ImageOutcomes == {"ok", "not_found", "not_found_no_placeholder", "unreadable"}
NoFault == [loc |-> 0, step |-> "none"]
Faults == {NoFault} \cup [loc : coordinate_ids, step : DrawSteps]
PlaceholderSize == 1024
Font == [digit |-> 12, slash |-> 6, height |-> 16]
ReliableRender ==
    [image |-> [st |-> "ok", W |-> 800, H |-> 600], font |-> Font,
     fault |-> NoFault, wr |-> "ok"]

RECURSIVE markers_upto(_, _, _, _, _)
\* the marker loop over the first i coordinate entries; it ends at the
\* first body that raises
markers_upto(counts, i, W, H, env) ==
    IF i = 0 THEN [raised |-> FALSE, drawn |-> <<>>, sep_h |-> Unbound]
    ELSE LET loc == coordinate_seq[i]
             c == IF loc \in DOMAIN counts THEN counts[loc] ELSE NoCounts
             step == IF env.fault.loc = loc THEN env.fault.step ELSE "none"
             body(prev) ==
                 {[raised |-> m.status = "raised",
                   drawn |-> IF m.status = "drawn" THEN Append(prev.drawn, m)
                             ELSE prev.drawn,
                   sep_h |-> m.sep_h] :
                    m \in {marker(loc, c, load_coordinates[loc].x,
                                  load_coordinates[loc].y, W, H, env.font, step,
                                  prev.sep_h)}}
         IN CHOOSE r \in UNION {IF prev.raised THEN {prev} ELSE body(prev) :
                                  prev \in {markers_upto(counts, i - 1, W, H, env)}} :
               TRUE

\* The picture of one generate_map_image call: its base ("map",
\* "placeholder", or "none" when there is none), its size, the markers
\* drawn, and the value returned.
canvas_of(result, base, W, H, drawn) ==
    [result |-> result, base |-> base, W |-> W, H |-> H, drawn |-> drawn]
NoCanvas == canvas_of(FALSE, "none", 0, 0, <<>>)

\* A file of images/cache/: what it is drawn on and the counts it shows.
artifact(base, shown) == [base |-> base, markers |-> shown]
PartialFile == artifact("partial", [l \in {} |-> NoCounts])

with_file(files, path, image) ==
    [n \in DOMAIN files \cup {path} |-> IF n = path THEN image ELSE files[n]]

\* generate_map_image(output_path, feedback_counts): the value returned,
\* the picture and the cache directory it leaves.  Every exception ends in
\* the outer except clause, which returns False.
generate_map_image(files, output_path, counts, env) ==
    LET usable == env.image.st \in {"ok", "not_found"}
        base == IF env.image.st = "ok" THEN "map" ELSE "placeholder"
        W == IF env.image.st = "ok" THEN env.image.W ELSE PlaceholderSize
        H == IF env.image.st = "ok" THEN env.image.H ELSE PlaceholderSize
        loop == markers_upto(counts, Len(coordinate_seq), W, H, env)
    IN IF ~usable
       THEN [result |-> FALSE, files |-> files, canvas |-> NoCanvas]
       ELSE IF loop.raised
       THEN [result |-> FALSE, files |-> files,
             canvas |-> canvas_of(FALSE, base, W, H, loop.drawn)]
       ELSE CASE env.wr = "ok" ->
                   [result |-> TRUE,
                    files |-> with_file(files, output_path,
                                        artifact(base, markers(counts))),
                    canvas |-> canvas_of(TRUE, base, W, H, loop.drawn)]
              [] env.wr = "open_fails" ->
                   [result |-> FALSE, files |-> files,
                    canvas |-> canvas_of(FALSE, base, W, H, loop.drawn)]
              [] env.wr = "partial" ->
                   [result |-> FALSE,
                    files |-> with_file(files, output_path, PartialFile),
                    canvas |-> canvas_of(FALSE, base, W, H, loop.drawn)]

\* generate_map_with_cache: always a new image of the current counts, named
\* by the clock (to the second), then cleanup_old_cache(); "" when the
\* image was not made.
NoPath == -1
generate_map_with_cache(file, files, time, rd, env) ==
    LET feedback_counts == get_feedback_counts(get_feedbacks(file, rd))
        returned(made) ==
            IF made.result
            THEN [path |-> time,
                  files |-> cleanup_old_cache(made.files, MaxCacheFiles),
                  canvas |-> made.canvas]
            ELSE [path |-> NoPath, files |-> made.files, canvas |-> made.canvas]
    IN CHOOSE r \in {returned(made) :
                        made \in {generate_map_image(files, time, feedback_counts, env)}} :
          TRUE

(***************************************************************************)
(* State.                                                                  *)
(***************************************************************************)
vars == <<started, feedbacks_file, cache, cache_dir, coordinates_file,
          anonymized, chosen, canvas, now, fsm, tasks, outbox,
          accepted, issued, last>>

\* The log: what get_feedbacks() returns when the read succeeds.
Log == get_feedbacks(feedbacks_file, "ok")

NoData == [feedback_type |-> "unset", location_id |-> 0]
NoState == [state |-> "none", data |-> NoData]
Idle == [pc |-> "idle", user |-> 0, feedback_type |-> "unset",
         location_id |-> 0, text |-> Text(0, 0, 0), path |-> NoPath]
TaskIds == 1..MaxTasks
FreeTasks == {t \in TaskIds : tasks[t].pc = "idle"}
\* the slot a new task takes
NextTask == CHOOSE t \in FreeTasks : \A s \in FreeTasks : t <= s

NoText == Text(0, 0, 0)
NoAnonymized == [max_length |-> 0, texts |-> <<>>]
\* op: what ran; text: the text submitted (enter_feedback_text); path: the
\* file name generate_map_with_cache returned; env: what the render met
NoEnv ==
    [image |-> [st |-> "none", W |-> 0, H |-> 0], font |-> Font,
     fault |-> NoFault, wr |-> "none"]
RenderStep(op, text, path, env) ==
    [op |-> op, cacheBefore |-> DOMAIN cache, logBefore |-> Log,
     text |-> text, path |-> path, env |-> env,
     dirBefore |-> cache_dir, coordinatesBefore |-> coordinates_file,
     raised |-> FALSE]
StepOf(op, text, path) == RenderStep(op, text, path, NoEnv)
Step(op) == StepOf(op, NoText, 0)

\* An artifact a previous run left in images/cache/.
StaleFiles ==
    [n \in {0} |-> artifact("map", [l \in {1} |-> [complaints |-> 1, suggestions |-> 0]])]

Init ==
    /\ started = FALSE
    /\ feedbacks_file \in {FileAbsent, FileList(<<>>)}
    /\ cache \in {NoFiles, StaleFiles}
    /\ cache_dir = TRUE
    /\ coordinates_file = DefaultCoordinatesFile
    /\ anonymized = NoAnonymized
    /\ chosen = [u \in Users |-> FALSE]
    /\ canvas = NoCanvas
    /\ now = 1
    /\ fsm = [u \in Users |-> NoState]
    /\ tasks = [t \in TaskIds |-> Idle]
    /\ outbox = {}
    /\ accepted = 0
    /\ issued = <<>>
    /\ last = [op |-> "init", cacheBefore |-> {}, logBefore |-> <<>>,
               text |-> NoText, path |-> 0, env |-> NoEnv,
               dirBefore |-> TRUE, coordinatesBefore |-> FileAbsent,
               raised |-> FALSE]

(***************************************************************************)
(* main(): the files are loaded (get_feedbacks creates an absent file),    *)
(* the cache is emptied, polling starts.                                   *)
(***************************************************************************)
Main(wr0) ==
    /\ ~started
    /\ coordinates_file' = load_coordinates_file(coordinates_file, wr0)
    /\ feedbacks_file' = load_json_file(feedbacks_file, <<>>, wr0)
    /\ IF get_feedback_counts_raises(Log)
       THEN \* get_feedback_counts() raises out of main(): no polling
            /\ last' = [Step("main") EXCEPT !.raised = TRUE]
            /\ UNCHANGED <<started, cache>>
       ELSE /\ started' = TRUE
            /\ cache' = cleanup_cache_completely(cache)
            /\ last' = Step("main")
    /\ outbox' = {}
    /\ UNCHANGED <<anonymized, chosen,
                   cache_dir, canvas, now, fsm, tasks, accepted, issued>>

\* Time passes: the clock shows the next second.
TickUpTo(limit) ==
    /\ now < limit
    /\ now' = now + 1
    /\ UNCHANGED <<coordinates_file, anonymized, chosen,
                   cache_dir, canvas, started, feedbacks_file, cache, fsm, tasks, outbox,
                   accepted, issued, last>>
Tick == TickUpTo(MaxTime)

(***************************************************************************)
(* The dialogue.                                                           *)
(***************************************************************************)
\* a slip: the data dropped, the state kept
clear_data_only(f, u) == [f EXCEPT ![u].data = NoData]

\* state.clear()
clear(f, u) == [f EXCEPT ![u] = NoState]

\* add_feedback_start: "add_complaint" / "add_suggestion"
AddFeedbackStart(u, ty) ==
    /\ started
    /\ fsm' = [fsm EXCEPT ![u].data.feedback_type = ty,
                          ![u].state = "choosing_location"]
    /\ UNCHANGED <<coordinates_file, anonymized, chosen,
                   cache_dir, canvas, started, feedbacks_file, cache, now, tasks, outbox,
                   accepted, issued, last>>

\* add_feedback_to_location: "add_<type>_loc_<id>"; the id is not looked up
\* (get_location_full_info answers an unknown id with a placeholder).
AddFeedbackToLocation(u, ty, loc) ==
    /\ started
    /\ chosen' = [chosen EXCEPT ![u] = TRUE]
    /\ fsm' = [fsm EXCEPT ![u].data = [feedback_type |-> ty, location_id |-> loc],
                          ![u].state = "entering_text"]
    /\ UNCHANGED <<coordinates_file, anonymized,
                   cache_dir, canvas, started, feedbacks_file, cache, now, tasks, outbox,
                   accepted, issued, last>>

\* back_to_main and cancel_feedback: state.clear()
BackToMain(u) ==
    /\ started
    /\ fsm[u] # NoState
    /\ fsm' = clear(fsm, u)
    /\ chosen' = [chosen EXCEPT ![u] = FALSE]
    /\ UNCHANGED <<coordinates_file, anonymized,
                   cache_dir, canvas, started, feedbacks_file, cache, now, tasks, outbox,
                   accepted, issued, last>>

(***************************************************************************)
(* anonymize_text on the characters of a text.  A text is a sequence of    *)
(* symbols: "a" a word character, "@", " " a whitespace character, "." any *)
(* other character, "H" the seven characters http://, "P" the mark         *)
(* [пользователь] and "L" the mark [ссылка].                               *)
(***************************************************************************)
InputSymbols == {"a", "@", " ", ".", "H"}
symbol_length(c) ==
    CASE c = "H" -> 7
      [] c = "P" -> 14
      [] c = "L" -> 8
      [] OTHER -> 1

RECURSIVE text_length(_)
text_length(t) ==
    IF t = <<>> THEN 0 ELSE symbol_length(Head(t)) + text_length(Tail(t))

\* the first k characters of a symbol that is cut: http:// starts with four
\* word characters, a mark with "[" followed by letters
symbol_prefix(c, k) ==
    [i \in 1..k |-> IF c = "H" THEN (IF i <= 4 THEN "a" ELSE ".")
                               ELSE (IF i = 1 THEN "." ELSE "a")]

RECURSIVE word_run(_, _)
\* the last index of the run of word characters that starts at i (i - 1
\* when t[i] is not one)
word_run(t, i) ==
    IF i <= Len(t) /\ t[i] = "a" THEN word_run(t, i + 1) ELSE i - 1

RECURSIVE sub_handles(_, _)
\* re.sub(r'@\w+', '[пользователь]', text) from index i on.  The match takes
\* the word characters after "@", the "http" of an http:// included, which
\* leaves its "://".
sub_handles(t, i) ==
    IF i > Len(t) THEN <<>>
    ELSE IF t[i] = "@"
    THEN LET j == word_run(t, i + 1)
         IN IF j + 1 <= Len(t) /\ t[j + 1] = "H"
            THEN <<"P", ".", ".", ".">> \o sub_handles(t, j + 2)
            ELSE IF j > i
            THEN <<"P">> \o sub_handles(t, j + 1)
            ELSE <<"@">> \o sub_handles(t, i + 1)
    ELSE <<t[i]>> \o sub_handles(t, i + 1)

RECURSIVE non_space_run(_, _)
non_space_run(t, i) ==
    IF i <= Len(t) /\ t[i] # " " THEN non_space_run(t, i + 1) ELSE i - 1

RECURSIVE sub_links(_, _)
\* re.sub(r'https?://\S+', '[ссылка]', text) from index i on
sub_links(t, i) ==
    IF i > Len(t) THEN <<>>
    ELSE IF t[i] = "H" /\ non_space_run(t, i + 1) > i
    THEN <<"L">> \o sub_links(t, non_space_run(t, i + 1) + 1)
    ELSE <<t[i]>> \o sub_links(t, i + 1)

RECURSIVE text_prefix(_, _)
\* text[:max_length]
text_prefix(t, max_length) ==
    IF t = <<>> \/ max_length <= 0 THEN <<>>
    ELSE IF symbol_length(Head(t)) = 1
    THEN <<Head(t)>> \o text_prefix(Tail(t), max_length - 1)
    ELSE IF symbol_length(Head(t)) <= max_length
    THEN <<Head(t)>> \o text_prefix(Tail(t), max_length - symbol_length(Head(t)))
    ELSE symbol_prefix(Head(t), max_length)

Ellipsis == <<".", ".", ".">>

\* a slip: the text is cut before the handles and links are replaced
anonymize_cut_first(text, max_length) ==
    LET cut == IF text_length(text) > max_length
               THEN text_prefix(text, max_length) \o Ellipsis
               ELSE text
    IN sub_links(sub_handles(cut, 1), 1)

anonymize_text(text, max_length) ==
    LET replaced == sub_links(sub_handles(text, 1), 1)
    IN IF text_length(replaced) > max_length
       THEN text_prefix(replaced, max_length) \o Ellipsis
       ELSE replaced

\* anonymize_text on the length of a text that holds no handle and no link:
\* cut to max_length, "..." appended.
shown_text(text, max_length) ==
    IF TextLen(text) > max_length THEN max_length + 3 ELSE TextLen(text)

\* enter_feedback_text up to its first Telegram call: the two length tests,
\* then save_feedback and the confirmation.
\* a slip: the untrimmed length tested
raw_text_too_short(text) == TextLen(text) < MinTextLen

text_too_short(text) == TextLen(Strip(text)) < MinTextLen
text_too_long(text) == TextLen(text) > MaxTextLen

\* a slip: the state cleared, as the except clause does
rejected_state_cleared(f, u) == [f EXCEPT ![u] = NoState]

\* the state after a rejection: the handler returns with no state.clear()
rejected_state(f, u) == f

EnterFeedbackText(u, text, cap, rd, wr0, wr) ==
    /\ started
    /\ fsm[u].state = "entering_text"
    /\ IF text_too_short(text) \/ text_too_long(text)
       THEN /\ outbox' = {[to |-> u,
                           kind |-> IF text_too_short(text) THEN "too_short" ELSE "too_long",
                           lines |-> <<>>]}
            /\ fsm' = rejected_state(fsm, u)
            /\ last' = StepOf("rejected", text, 0)
            /\ UNCHANGED <<feedbacks_file, cache, tasks, accepted, issued, chosen>>
       ELSE LET ty == fsm[u].data.feedback_type
                loc == fsm[u].data.location_id
                feedbacks == get_feedbacks(feedbacks_file, rd)
            IN /\ FreeTasks # {}
               /\ accepted < cap
               /\ feedbacks_file' = save_feedback_file(feedbacks_file, ty, loc,
                                        Strip(text), u, now, rd, wr0, wr)
               /\ cache' = cleanup_cache_completely(cache)
               /\ accepted' = accepted + 1
               /\ chosen' = [chosen EXCEPT ![u] = FALSE]
               /\ issued' = Append(issued, anonymous_id(feedbacks))
               /\ tasks' = [tasks EXCEPT ![NextTask] =
                              [pc |-> "confirmation", user |-> u, feedback_type |-> ty,
                               location_id |-> loc, text |-> text,
                               path |-> NoPath]]
               /\ outbox' = {[to |-> u, kind |-> "saved",
                              lines |-> <<[type |-> ty, location_id |-> loc,
                                           text |-> shown_text(text, 200)]>>]}
               /\ last' = StepOf("save_feedback", text, 0)
               /\ UNCHANGED fsm
    /\ UNCHANGED <<coordinates_file, anonymized,
                   cache_dir, canvas, started, now>>

\* enter_feedback_text after the confirmation was sent: state.clear(), then
\* notify_admins_about_new_feedback.
AfterConfirmation(t) ==
    /\ tasks[t].pc = "confirmation"
    /\ fsm' = clear(fsm, tasks[t].user)
    /\ chosen' = [chosen EXCEPT ![tasks[t].user] = FALSE]
    /\ tasks' = [tasks EXCEPT ![t] = Idle]
    /\ outbox' = {[to |-> a, kind |-> "new_feedback_admin",
                   lines |-> <<[type |-> tasks[t].feedback_type,
                                location_id |-> tasks[t].location_id,
                                real_username |-> Username(tasks[t].user),
                                real_user_id |-> tasks[t].user,
                                text |-> shown_text(tasks[t].text, 500)]>>] : a \in ADMIN_IDS}
    /\ last' = Step("after_confirmation")
    /\ UNCHANGED <<coordinates_file, anonymized,
                   cache_dir, canvas, started, feedbacks_file, cache, now, accepted, issued>>

\* A text message from a user who is not in entering_text: the filters of
\* the message handlers (CommandStart, Command("help"), entering_text,
\* Command("stats"), Command("export")) leave plain text to no handler, and
\* the update is dropped.
UnhandledText(u) ==
    /\ started
    /\ fsm[u].state # "entering_text"
    /\ last' = Step("unhandled_text")
    /\ UNCHANGED <<started, feedbacks_file, cache, cache_dir, coordinates_file,
                   anonymized, chosen, canvas, now, fsm, tasks, outbox,
                   accepted, issued>>

(***************************************************************************)
(* view_feedbacks: the map is generated and sent.                          *)
(***************************************************************************)
ViewFeedbacks(u, rd, wr0, env) ==
    /\ started
    /\ ~get_feedback_counts_raises(get_feedbacks(feedbacks_file, rd))
    /\ \E map \in {generate_map_with_cache(feedbacks_file, cache, now, rd,
                        \* map_img.save cannot open a file in a missing directory
                        IF cache_dir THEN env ELSE [env EXCEPT !.wr = "open_fails"])} :
       /\ feedbacks_file' = load_json_file(feedbacks_file, <<>>, wr0)
       /\ coordinates_file' = load_coordinates_file(coordinates_file, wr0)
       /\ cache' = map.files
       /\ canvas' = map.canvas
       /\ outbox' = {[to |-> u,
                      kind |-> IF map.path # NoPath /\ map.path \in DOMAIN map.files
                               THEN "map" ELSE "no_map",
                      lines |-> <<>>]}
       /\ last' = RenderStep("generate_map", NoText, map.path, env)
       /\ UNCHANGED <<anonymized, chosen,
                      cache_dir, started, now, fsm, tasks, accepted, issued>>

\* view_feedbacks when get_feedback_counts raises: the except clause of the
\* handler answers with an alert, no image is made.
ViewFeedbacksRaises(u, rd) ==
    /\ started
    /\ get_feedback_counts_raises(get_feedbacks(feedbacks_file, rd))
    /\ coordinates_file' = load_coordinates_file(coordinates_file, "ok")
    /\ outbox' = {[to |-> u, kind |-> "error", lines |-> <<>>]}
    /\ last' = [StepOf("generate_map", NoText, NoPath) EXCEPT !.raised = TRUE]
    /\ UNCHANGED <<anonymized, chosen,
                   cache_dir, canvas, started, feedbacks_file, cache, now, fsm,
                   tasks, accepted, issued>>

\* view_feedbacks up to the point where bot.send_photo suspends: the map is
\* generated, map_path and the file are tested, safe_send_photo tests the
\* file again and hands its path to FSInputFile, which reads nothing yet.
\* Other handler tasks run while the request is prepared.
ViewFeedbacksRender(u, rd, wr0, env) ==
    /\ started
    /\ FreeTasks # {}
    /\ ~get_feedback_counts_raises(get_feedbacks(feedbacks_file, rd))
    /\ \E map \in {generate_map_with_cache(feedbacks_file, cache, now, rd,
                        IF cache_dir THEN env ELSE [env EXCEPT !.wr = "open_fails"])} :
       /\ feedbacks_file' = load_json_file(feedbacks_file, <<>>, wr0)
       /\ coordinates_file' = load_coordinates_file(coordinates_file, wr0)
       /\ cache' = map.files
       /\ canvas' = map.canvas
       /\ IF map.path # NoPath /\ map.path \in DOMAIN map.files
          THEN /\ tasks' = [tasks EXCEPT ![NextTask] =
                               [Idle EXCEPT !.pc = "send_photo", !.user = u,
                                            !.path = map.path]]
               /\ outbox' = {}
          ELSE /\ outbox' = {[to |-> u, kind |-> "no_map", lines |-> <<>>]}
               /\ UNCHANGED tasks
       /\ last' = RenderStep("generate_map", NoText, map.path, env)
       /\ UNCHANGED <<anonymized, chosen,
                      cache_dir, started, now, fsm, accepted, issued>>

\* bot.send_photo resumed: the file FSInputFile names is opened and uploaded.
\* A file that is gone raises, safe_send_photo returns False and the user
\* is told the map could not be sent.
SendPhoto(t) ==
    /\ tasks[t].pc = "send_photo"
    /\ outbox' = {[to |-> tasks[t].user,
                   kind |-> IF tasks[t].path \in DOMAIN cache
                            THEN "map" ELSE "map_not_sent",
                   lines |-> <<>>]}
    /\ tasks' = [tasks EXCEPT ![t] = Idle]
    /\ last' = StepOf("send_photo", NoText, tasks[t].path)
    /\ UNCHANGED <<coordinates_file, anonymized, chosen, cache_dir, canvas,
                   started, feedbacks_file, cache, now, fsm, accepted, issued>>

\* The body of the marker loop applied to one coordinate entry: counts c
\* for a location with centre (cx, cy) on a W x H canvas; step is the step
\* that raises, sep_h what separator_height holds on entry.  The canvas is
\* the freshly opened one.
DrawMarker(c, cx, cy, W, H, step, sep_h) ==
    /\ canvas = NoCanvas
    /\ \E m \in {marker(1, c, cx, cy, W, H, Font, step, sep_h)} :
          canvas' = canvas_of(m.status # "raised", "map", W, H,
                              IF m.status = "drawn" THEN <<m>> ELSE <<>>)
    /\ UNCHANGED <<coordinates_file, anonymized, chosen,
                   cache_dir, started, feedbacks_file, cache, now, fsm, tasks, outbox,
                   accepted, issued, last>>

\* anonymize_text applied to the text it returned last (to the input the
\* first time), with the same max_length.
AnonymizeText ==
    /\ anonymized.texts # <<>>
    /\ Len(anonymized.texts) < 3
    /\ anonymized' =
          [anonymized EXCEPT !.texts =
              Append(@, anonymize_text(@[Len(@)], anonymized.max_length))]
    /\ UNCHANGED <<started, feedbacks_file, cache, cache_dir, coordinates_file,
                   chosen, canvas, now, fsm, tasks, outbox, accepted, issued, last>>

\* cleanup_old_cache() and cleanup_cache_completely() called on the cache
\* as it is.
CleanupOldCache ==
    /\ \E r \in {cleanup_old_cache_call(cache_dir, cache, MaxCacheFiles)} :
          /\ cache' = r.files
          /\ cache_dir' = r.exists
          /\ last' = [Step("cleanup_old_cache") EXCEPT !.raised = r.raised]
    /\ UNCHANGED <<coordinates_file, anonymized, chosen,
                   canvas, started, feedbacks_file, now, fsm, tasks, outbox,
                   accepted, issued>>

CleanupCacheCompletely ==
    /\ \E r \in {cleanup_cache_completely_call(cache_dir, cache)} :
          /\ cache' = r.files
          /\ cache_dir' = r.exists
          /\ last' = [Step("cleanup_cache_completely") EXCEPT !.raised = r.raised]
    /\ UNCHANGED <<coordinates_file, anonymized, chosen,
                   canvas, started, feedbacks_file, now, fsm, tasks, outbox,
                   accepted, issued>>

(***************************************************************************)
(* The views.  A line of a message is a record of exactly the fields of a  *)
(* report the message text is built from.                                  *)
(***************************************************************************)
\* sorted(feedbacks, key=timestamp, reverse=True): a stable sort, reports
\* with equal timestamps keep the order of the list.
sorted_recent(feedbacks) ==
    LET n == Len(feedbacks)
        place(i) == 1 + Cardinality({j \in 1..n :
                        \/ feedbacks[j].timestamp > feedbacks[i].timestamp
                        \/ feedbacks[j].timestamp = feedbacks[i].timestamp /\ j < i})
    IN [k \in 1..n |-> feedbacks[CHOOSE i \in 1..n : place(i) = k]]

first_n(s, n) == SubSeq(s, 1, IF Len(s) < n THEN Len(s) ELSE n)

public_line(fb, max_length) ==
    [date |-> fb.date, location_id |-> fb.location_id,
     text |-> shown_text(fb.text, max_length)]

\* cmd_stats: "От:" is @real_username, or "ID: real_user_id" without one;
\* the text is fb['text'][:50] followed by "...".
admin_line(fb) ==
    [type |-> fb.type, location_id |-> fb.location_id, date |-> fb.date,
     from |-> IF fb.real_username # "None" THEN <<"@", fb.real_username>>
              ELSE <<"ID", fb.real_user_id>>,
     text |-> (IF TextLen(fb.text) < 50 THEN TextLen(fb.text) ELSE 50) + 3]

\* cmd_export: a row of the CSV file
export_line(fb) ==
    [id |-> fb.id, date |-> fb.date, type |-> fb.type,
     location_id |-> fb.location_id, text |-> fb.text,
     real_user_id |-> fb.real_user_id, real_username |-> fb.real_username,
     public_user_id |-> fb.public_user_id]

\* view_feedbacks_by_type: "view_<type>s_loc_<id>_page_<page>"
items_per_page == 5
total_pages(n) == (n + items_per_page - 1) \div items_per_page
clamp_page(page, pages) ==
    LET low == IF page < pages THEN page ELSE pages
    IN IF low > 1 THEN low ELSE 1
page_feedbacks(filtered, page) ==
    LET start_idx == (page - 1) * items_per_page
        end_idx == start_idx + items_per_page
    IN SubSeq(filtered, start_idx + 1,
              IF end_idx < Len(filtered) THEN end_idx ELSE Len(filtered))

\* a slip: the administrators' line used in a public list
view_page_admin_line(fb) == admin_line(fb)

view_page_line(fb) == public_line(fb, 200)
view_page_lines(feedbacks) ==
    [i \in 1..Len(feedbacks) |-> view_page_line(feedbacks[i])]

\* One button of an inline keyboard: what it is and the page it asks for.
page_button(button, ty, loc, page) ==
    [button |-> button, feedback_type |-> ty, location_id |-> loc, page |-> page]

\* a slip: "next" offered on the last page too
pagination_keyboard_with_next(page, pages, loc, ty) ==
    (IF page > 1 THEN <<page_button("previous", ty, loc, page - 1)>> ELSE <<>>)
    \o <<page_button("current", ty, loc, page)>>
    \o (IF page <= pages THEN <<page_button("next", ty, loc, page + 1)>> ELSE <<>>)
    \o <<page_button("back_to_location", ty, loc, 0)>>

\* get_pagination_keyboard: the navigation row, then "back to the location"
get_pagination_keyboard(page, pages, loc, ty) ==
    (IF page > 1 THEN <<page_button("previous", ty, loc, page - 1)>> ELSE <<>>)
    \o <<page_button("current", ty, loc, page)>>
    \o (IF page < pages THEN <<page_button("next", ty, loc, page + 1)>> ELSE <<>>)
    \o <<page_button("back_to_location", ty, loc, 0)>>

\* asked: the page of the callback data; page, pages: the "page/pages" of
\* the heading; first: the number of the first line
\* (enumerate(..., start=start_idx + 1))
ViewFeedbacksByType(u, ty, loc, page, rd, wr0) ==
    LET feedbacks == get_feedbacks(feedbacks_file, rd)
        filtered == SelectSeq(feedbacks,
                        LAMBDA fb : fb.type = ty /\ fb.location_id = loc)
        pages == total_pages(Len(filtered))
        shown == clamp_page(page, pages)
    IN /\ started
       /\ feedbacks_file' = load_json_file(feedbacks_file, <<>>, wr0)
       /\ outbox' = IF filtered = <<>>
                    THEN {[to |-> u, kind |-> "no_feedbacks", lines |-> <<>>]}
                    ELSE {[to |-> u, kind |-> "feedbacks_page",
                           lines |-> view_page_lines(page_feedbacks(filtered, shown)),
                           asked |-> page, page |-> shown, pages |-> pages,
                           first |-> (shown - 1) * items_per_page + 1,
                           keyboard |-> get_pagination_keyboard(shown, pages, loc, ty)]}
       /\ last' = Step("view_feedbacks_by_type")
       /\ UNCHANGED <<coordinates_file, anonymized, chosen,
                      cache_dir, canvas, started, cache, now, fsm, tasks, accepted, issued>>

\* show_all_feedbacks: "show_all_complaints" / "show_all_suggestions"
show_all_line(fb) == public_line(fb, 100)
show_all_lines(feedbacks) ==
    [i \in 1..Len(feedbacks) |-> show_all_line(feedbacks[i])]

ShowAllFeedbacks(u, ty, rd, wr0) ==
    LET feedbacks == get_feedbacks(feedbacks_file, rd)
        filtered == SelectSeq(feedbacks, LAMBDA fb : fb.type = ty)
    IN /\ started
       /\ feedbacks_file' = load_json_file(feedbacks_file, <<>>, wr0)
       /\ outbox' = IF filtered = <<>>
                    THEN {[to |-> u, kind |-> "no_feedbacks", lines |-> <<>>]}
                    ELSE {[to |-> u, kind |-> "all_feedbacks",
                           lines |-> show_all_lines(first_n(sorted_recent(filtered), 10))]}
       /\ last' = Step("show_all_feedbacks")
       /\ UNCHANGED <<coordinates_file, anonymized, chosen,
                      cache_dir, canvas, started, cache, now, fsm, tasks, accepted, issued>>

\* cmd_stats and cmd_export: for the administrators only
is_admin(u) == u \in ADMIN_IDS
admin_lines(feedbacks) ==
    [i \in 1..Len(feedbacks) |-> admin_line(feedbacks[i])]
export_lines(feedbacks) ==
    [i \in 1..Len(feedbacks) |-> export_line(feedbacks[i])]

CmdStats(u, rd, wr0) ==
    LET feedbacks == get_feedbacks(feedbacks_file, rd)
    IN /\ started
       /\ IF ~is_admin(u)
          THEN /\ outbox' = {[to |-> u, kind |-> "admins_only", lines |-> <<>>]}
               /\ UNCHANGED feedbacks_file
          ELSE /\ outbox' = {[to |-> u, kind |-> "stats",
                              lines |-> admin_lines(first_n(sorted_recent(feedbacks), 5))]}
               /\ feedbacks_file' = load_json_file(feedbacks_file, <<>>, wr0)
       /\ last' = Step("cmd_stats")
       /\ UNCHANGED <<coordinates_file, anonymized, chosen,
                      cache_dir, canvas, started, cache, now, fsm, tasks, accepted, issued>>

CmdExport(u, rd, wr0) ==
    LET feedbacks == get_feedbacks(feedbacks_file, rd)
    IN /\ started
       /\ IF ~is_admin(u)
          THEN /\ outbox' = {[to |-> u, kind |-> "admins_only", lines |-> <<>>]}
               /\ UNCHANGED feedbacks_file
          ELSE /\ outbox' = {[to |-> u, kind |-> "export",
                              lines |-> export_lines(feedbacks)]}
               /\ feedbacks_file' = load_json_file(feedbacks_file, <<>>, wr0)
       /\ last' = Step("cmd_export")
       /\ UNCHANGED <<coordinates_file, anonymized, chosen,
                      cache_dir, canvas, started, cache, now, fsm, tasks, accepted, issued>>

(***************************************************************************)
(* Specifications.                                                         *)
(***************************************************************************)
\* A text the length tests accept.
GoodText == Text(0, 5, 0)

\* The store and the cache: one user submits and looks at the map; every
\* file operation succeeds.
StoreNext ==
    \/ Main("ok")
    \/ \E ty \in Types, loc \in Locations : AddFeedbackToLocation(2, ty, loc)
    \/ EnterFeedbackText(2, GoodText, MaxFeedbacks, "ok", "ok", "ok")
    \/ \E t \in TaskIds : AfterConfirmation(t)
    \/ ViewFeedbacks(2, "ok", "ok", ReliableRender)

SpecStore == Init /\ [][StoreNext]_vars

\* What the users are shown: two users submit, look at the lists and ask
\* for the administrators' commands; every file operation succeeds.
PrivacyNext ==
    \/ Main("ok")
    \/ \E u \in Users, ty \in Types : AddFeedbackToLocation(u, ty, 1)
    \/ \E u \in Users : EnterFeedbackText(u, GoodText, MaxSubmissions, "ok", "ok", "ok")
    \/ \E t \in TaskIds : AfterConfirmation(t)
    \/ \E u \in Users, ty \in Types, page \in 1..2 :
          ViewFeedbacksByType(u, ty, 1, page, "ok", "ok")
    \/ \E u \in Users, ty \in Types : ShowAllFeedbacks(u, ty, "ok", "ok")
    \/ \E u \in Users : CmdStats(u, "ok", "ok")
    \/ \E u \in Users : CmdExport(u, "ok", "ok")

SpecPrivacy == Init /\ [][PrivacyNext]_vars

\* The dialogue: two users, concurrent handler tasks, a known and an unknown
\* location, an accepted and a rejected text; every file operation succeeds.
Texts == {Text(0, 5, 0), Text(1, 4, 1)}

Next ==
    \/ Main("ok")
    \/ \E u \in Users : AddFeedbackStart(u, "complaint")
    \/ \E u \in Users, loc \in {1} \cup UnknownLocations :
          AddFeedbackToLocation(u, "complaint", loc)
    \/ \E u \in Users : BackToMain(u)
    \/ \E u \in Users, text \in Texts :
          EnterFeedbackText(u, text, MaxSubmissions, "ok", "ok", "ok")
    \/ \E t \in TaskIds : AfterConfirmation(t)

Spec == Init /\ [][Next]_vars

\* The length tests: one user submits texts around both limits.
BoundaryTexts ==
    {Text(lead, body, trail) : lead \in {0, 1}, trail \in {0, 1},
                               body \in {0, MinTextLen - 1, MinTextLen,
                                         MaxTextLen - 1, MaxTextLen, MaxTextLen + 1}}

TextNext ==
    \/ Main("ok")
    \/ \E ty \in Types : AddFeedbackToLocation(2, ty, 1)
    \/ \E text \in BoundaryTexts :
          EnterFeedbackText(2, text, MaxSubmissions, "ok", "ok", "ok")
    \/ \E t \in TaskIds : AfterConfirmation(t)

SpecText == Init /\ [][TextNext]_vars

\* The store when file operations may fail: a read may raise, a write may
\* fail before or after the file was truncated.  Time passes.
FaultNext ==
    \/ \E wr0 \in WriteOutcomes : Main(wr0)
    \/ Tick
    \/ \E ty \in Types : AddFeedbackToLocation(2, ty, 1)
    \/ \E rd \in ReadOutcomes, wr0, wr \in WriteOutcomes :
          EnterFeedbackText(2, GoodText, MaxSubmissions, rd, wr0, wr)
    \/ \E t \in TaskIds : AfterConfirmation(t)

SpecFault == Init /\ [][FaultNext]_vars

\* The cache over many renders: the clock runs long enough for more than
\* max_files artifacts, and a write of the image may fail half way.
RetentionNext ==
    \/ Main("ok")
    \/ TickUpTo(MaxClock)
    \/ \E wr \in {"ok", "partial"} :
          ViewFeedbacks(2, "ok", "ok", [ReliableRender EXCEPT !.wr = wr])

SpecRetention == Init /\ [][RetentionNext]_vars

\* Renders that meet every outcome of the base image, of the drawing of
\* one marker and of the write.  The bot starts with the reports file an
\* earlier run left: up to MaxSubmissions reports, saved by save_feedback.
BaseImages ==
    {[st |-> "ok", W |-> 800, H |-> 600]} \cup
    {[st |-> o, W |-> 0, H |-> 0] : o \in ImageOutcomes \ {"ok"}}
RenderEnvs == [image : BaseImages, font : {Font}, fault : Faults, wr : WriteOutcomes]

RECURSIVE saved(_)
\* the list after save_feedback was called for each of kinds in turn
saved(kinds) ==
    IF kinds = <<>> THEN <<>>
    ELSE LET n == Len(kinds)
             before == saved(SubSeq(kinds, 1, n - 1))
         IN append_feedback(before,
               new_feedback(before, kinds[n][1], kinds[n][2], GoodText, 2, 0))
StoredLogs ==
    {saved(kinds) :
        kinds \in UNION {[1..n -> Types \X Locations] : n \in 0..MaxSubmissions}}

InitRender ==
    /\ started = FALSE
    /\ feedbacks_file \in {FileList(log) : log \in StoredLogs}
    /\ cache \in {NoFiles, StaleFiles}
    /\ cache_dir = TRUE
    /\ coordinates_file = DefaultCoordinatesFile
    /\ anonymized = NoAnonymized
    /\ chosen = [u \in Users |-> FALSE]
    /\ canvas = NoCanvas
    /\ now = 1
    /\ fsm = [u \in Users |-> NoState]
    /\ tasks = [t \in TaskIds |-> Idle]
    /\ outbox = {}
    /\ accepted = 0
    /\ issued = <<>>
    /\ last = [op |-> "init", cacheBefore |-> {}, logBefore |-> <<>>,
               text |-> NoText, path |-> 0, env |-> NoEnv,
               dirBefore |-> TRUE, coordinatesBefore |-> FileAbsent,
               raised |-> FALSE]

RenderNext ==
    \/ Main("ok")
    \/ \E env \in RenderEnvs : ViewFeedbacks(2, "ok", "ok", env)

SpecRender == InitRender /\ [][RenderNext]_vars

\* The label of one marker for counts of one and of three digits, centres
\* inside, at the edge of and far outside the canvas, and canvases from an
\* icon to the size of the placeholder; the measuring may raise.
LabelCounts == {0, 1, 100}
Centres == {-1000, 0, 45, 400, 5000}
CanvasSizes == {<<40, 40>>, <<800, 600>>, <<1024, 1024>>}

LabelNext ==
    \E nc \in LabelCounts, ns \in LabelCounts, cx \in Centres, cy \in Centres,
       size \in CanvasSizes, step \in {"none", "measure"},
       sep_h \in {Unbound, Font.height} :
          DrawMarker([complaints |-> nc, suggestions |-> ns], cx, cy,
                     size[1], size[2], step, sep_h)

SpecLabel == Init /\ [][LabelNext]_vars

\* The clean-ups on their own: the cache directory is missing, or holds up
\* to one file more than cleanup_old_cache keeps (the state after a save).
CacheNames == 1..(MaxCacheFiles + 1)
CacheContents ==
    {[n \in names |-> artifact("map", [l \in {} |-> NoCounts])] :
        names \in SUBSET CacheNames}

InitCleanup ==
    /\ started = FALSE
    /\ feedbacks_file = FileList(<<>>)
    /\ cache_dir \in BOOLEAN
    /\ coordinates_file = DefaultCoordinatesFile
    /\ anonymized = NoAnonymized
    /\ chosen = [u \in Users |-> FALSE]
    /\ cache \in IF cache_dir THEN CacheContents ELSE {NoFiles}
    /\ canvas = NoCanvas
    /\ now = 1
    /\ fsm = [u \in Users |-> NoState]
    /\ tasks = [t \in TaskIds |-> Idle]
    /\ outbox = {}
    /\ accepted = 0
    /\ issued = <<>>
    /\ last = [op |-> "init", cacheBefore |-> {}, logBefore |-> <<>>,
               text |-> NoText, path |-> 0, env |-> NoEnv,
               dirBefore |-> TRUE, coordinatesBefore |-> FileAbsent,
               raised |-> FALSE]

CleanupNext ==
    \/ CleanupOldCache
    \/ CleanupCacheCompletely

SpecCleanup == InitCleanup /\ [][CleanupNext]_vars

\* A damaged reports file: it does not parse, or it parses to something
\* that is not a list of reports; found at the start, or while the bot runs.
InitMalformed ==
    /\ started \in BOOLEAN
    /\ feedbacks_file \in {FileCorrupt, FileList(Misshapen)}
    /\ cache = NoFiles
    /\ cache_dir = TRUE
    /\ coordinates_file = DefaultCoordinatesFile
    /\ anonymized = NoAnonymized
    /\ chosen = [u \in Users |-> FALSE]
    /\ canvas = NoCanvas
    /\ now = 1
    /\ fsm = [u \in Users |-> NoState]
    /\ tasks = [t \in TaskIds |-> Idle]
    /\ outbox = {}
    /\ accepted = 0
    /\ issued = <<>>
    /\ last = [op |-> "init", cacheBefore |-> {}, logBefore |-> <<>>,
               text |-> NoText, path |-> 0, env |-> NoEnv,
               dirBefore |-> TRUE, coordinatesBefore |-> FileAbsent,
               raised |-> FALSE]

MalformedNext ==
    \/ Main("ok")
    \/ \E ty \in Types, loc \in Locations : AddFeedbackToLocation(2, ty, loc)
    \/ EnterFeedbackText(2, GoodText, MaxSubmissions, "ok", "ok", "ok")
    \/ \E t \in TaskIds : AfterConfirmation(t)
    \/ ViewFeedbacks(2, "ok", "ok", ReliableRender)
    \/ ViewFeedbacksRaises(2, "ok")

SpecMalformed == InitMalformed /\ [][MalformedNext]_vars

\* The listings by recency: two users submit, within the same reading of
\* the clock or after it has advanced, and the lists are asked for.
RecencyNext ==
    \/ Main("ok")
    \/ Tick
    \/ \E u \in Users, ty \in Types, loc \in Locations : AddFeedbackToLocation(u, ty, loc)
    \/ \E u \in Users : EnterFeedbackText(u, GoodText, MaxSubmissions, "ok", "ok", "ok")
    \/ \E t \in TaskIds : AfterConfirmation(t)
    \/ \E ty \in Types : ShowAllFeedbacks(2, ty, "ok", "ok")
    \/ CmdStats(1, "ok", "ok")

SpecRecency == Init /\ [][RecencyNext]_vars

\* anonymize_text on every text of up to MaxSymbols symbols, for limits
\* below, at and above the lengths of these texts and of the two marks.
MaxSymbols == 3
InputTexts == UNION {[1..n -> InputSymbols] : n \in 0..MaxSymbols}
MaxLengths == {0, 2, 7, 10, 16}

InitAnonymize ==
    /\ started = FALSE
    /\ feedbacks_file = FileList(<<>>)
    /\ cache = NoFiles
    /\ cache_dir = TRUE
    /\ coordinates_file = DefaultCoordinatesFile
    /\ anonymized \in [max_length : MaxLengths, texts : {<<x>> : x \in InputTexts}]
    /\ chosen = [u \in Users |-> FALSE]
    /\ canvas = NoCanvas
    /\ now = 1
    /\ fsm = [u \in Users |-> NoState]
    /\ tasks = [t \in TaskIds |-> Idle]
    /\ outbox = {}
    /\ accepted = 0
    /\ issued = <<>>
    /\ last = [op |-> "init", cacheBefore |-> {}, logBefore |-> <<>>,
               text |-> NoText, path |-> 0, env |-> NoEnv,
               dirBefore |-> TRUE, coordinatesBefore |-> FileAbsent,
               raised |-> FALSE]

SpecAnonymize == InitAnonymize /\ [][AnonymizeText]_vars

\* The coordinates file: absent, unreadable, the default table, a table an
\* operator has tuned that lacks location 2, an empty table; the reports
\* are those of an earlier run.  The map is there (800 x 600) or is not
\* (the placeholder).
TunedCoordinates == [l \in {1} |-> [x |-> 100, y |-> 500]]
CoordinateFiles ==
    {FileAbsent, FileCorrupt, DefaultCoordinatesFile,
     CoordinatesFile(TunedCoordinates),
     CoordinatesFile([l \in {} |-> [x |-> 0, y |-> 0]])}
PlaceholderRender == [ReliableRender EXCEPT !.image.st = "not_found"]

InitCoordinates ==
    /\ started = FALSE
    /\ feedbacks_file \in {FileList(log) : log \in StoredLogs}
    /\ cache = NoFiles
    /\ cache_dir = TRUE
    /\ coordinates_file \in CoordinateFiles
    /\ anonymized = NoAnonymized
    /\ chosen = [u \in Users |-> FALSE]
    /\ canvas = NoCanvas
    /\ now = 1
    /\ fsm = [u \in Users |-> NoState]
    /\ tasks = [t \in TaskIds |-> Idle]
    /\ outbox = {}
    /\ accepted = 0
    /\ issued = <<>>
    /\ last = [op |-> "init", cacheBefore |-> {}, logBefore |-> <<>>,
               text |-> NoText, path |-> 0, env |-> NoEnv,
               dirBefore |-> TRUE, coordinatesBefore |-> FileAbsent,
               raised |-> FALSE]

CoordinatesNext ==
    \/ Main("ok")
    \/ \E env \in {ReliableRender, PlaceholderRender} :
          ViewFeedbacks(2, "ok", "ok", env)

SpecCoordinates == InitCoordinates /\ [][CoordinatesNext]_vars

\* The map on its way: user 2 asks for the map while user 1 submits; every
\* file operation succeeds.
SendNext ==
    \/ Main("ok")
    \/ \E ty \in Types, loc \in Locations : AddFeedbackToLocation(1, ty, loc)
    \/ EnterFeedbackText(1, GoodText, MaxSubmissions, "ok", "ok", "ok")
    \/ \E t \in TaskIds : AfterConfirmation(t)
    \/ ViewFeedbacksRender(2, "ok", "ok", ReliableRender)
    \/ \E t \in TaskIds : SendPhoto(t)

SpecSend == Init /\ [][SendNext]_vars

\* The dialogue: user 2 chooses a kind and a location, goes back, and sends
\* texts in every state, while user 1 submits a complaint; every file
\* operation succeeds.
DialogueNext ==
    \/ Main("ok")
    \/ \E ty \in Types : AddFeedbackStart(2, ty)
    \/ \E ty \in Types, loc \in Locations : AddFeedbackToLocation(2, ty, loc)
    \/ AddFeedbackToLocation(1, "complaint", 1)
    \/ BackToMain(2)
    \/ \E u \in Users : UnhandledText(u)
    \/ \E u \in Users :
          EnterFeedbackText(u, GoodText, MaxSubmissions, "ok", "ok", "ok")
    \/ EnterFeedbackText(2, Text(0, MinTextLen - 1, 0), MaxSubmissions, "ok", "ok", "ok")
    \/ \E t \in TaskIds : AfterConfirmation(t)

SpecDialogue == Init /\ [][DialogueNext]_vars

\* Rejections: one user submits texts that are too short, too long and
\* right, and looks at the map in between; every file operation succeeds.
RejectedTexts == {Text(0, MinTextLen - 1, 0), Text(1, MaxTextLen, 0)}

RejectNext ==
    \/ Main("ok")
    \/ \E ty \in Types, loc \in Locations : AddFeedbackToLocation(2, ty, loc)
    \/ \E text \in RejectedTexts \cup {GoodText} :
          EnterFeedbackText(2, text, MaxSubmissions, "ok", "ok", "ok")
    \/ \E t \in TaskIds : AfterConfirmation(t)
    \/ ViewFeedbacks(2, "ok", "ok", ReliableRender)

SpecReject == Init /\ [][RejectNext]_vars

\* The pages of a list: the reports file holds up to MaxPageReports reports
\* of three kinds of (type, location) in turn, and a user asks for pages
\* from below the first to MaxPage.
MaxPageReports == 22
MaxPage == 4

page_kind(i) ==
    IF i % 4 = 2 THEN <<"suggestion", 1>>
    ELSE IF i % 4 = 0 THEN <<"complaint", 2>>
    ELSE <<"complaint", 1>>

RECURSIVE page_log(_)
\* the list after n save_feedback calls, the i-th with a text of 5 + i
\* characters
page_log(n) ==
    IF n = 0 THEN <<>>
    ELSE LET before == page_log(n - 1)
         IN append_feedback(before,
               new_feedback(before, page_kind(n)[1], page_kind(n)[2],
                            Text(0, MinTextLen + n, 0), 2, 0))

InitPages ==
    /\ started = FALSE
    /\ feedbacks_file \in {FileList(page_log(n)) : n \in 0..MaxPageReports}
    /\ cache = NoFiles
    /\ cache_dir = TRUE
    /\ coordinates_file = DefaultCoordinatesFile
    /\ anonymized = NoAnonymized
    /\ chosen = [u \in Users |-> FALSE]
    /\ canvas = NoCanvas
    /\ now = 1
    /\ fsm = [u \in Users |-> NoState]
    /\ tasks = [t \in TaskIds |-> Idle]
    /\ outbox = {}
    /\ accepted = 0
    /\ issued = <<>>
    /\ last = [op |-> "init", cacheBefore |-> {}, logBefore |-> <<>>,
               text |-> NoText, path |-> 0, env |-> NoEnv,
               dirBefore |-> TRUE, coordinatesBefore |-> FileAbsent,
               raised |-> FALSE]

PagesNext ==
    \/ Main("ok")
    \/ \E ty \in Types, loc \in Locations, page \in -1..MaxPage :
          ViewFeedbacksByType(2, ty, loc, page, "ok", "ok")

SpecPages == InitPages /\ [][PagesNext]_vars

(***************************************************************************)
(* The claims.                                                             *)
(***************************************************************************)
\* Direct enumeration of a list of reports.
reports_of(feedbacks, ty, loc) ==
    {i \in 1..Len(feedbacks) :
        feedbacks[i].type = ty /\ feedbacks[i].location_id = loc}

is_prefix(s, t) == Len(s) <= Len(t) /\ \A i \in 1..Len(s) : t[i] = s[i]

AllLocations == Locations \cup UnknownLocations

\* The last step was a save_feedback call that appended a report.
Appended == last.op = "save_feedback" /\ Len(Log) > Len(last.logBefore)

\* C1: after any sequence of save_feedback calls, get_feedback_counts()
\* gives, for each location, the number of complaints and the number of
\* suggestions the log holds for it, as counted by enumerating the log; a
\* location it has no entry for has neither.
C1_CountsAreEnumeration ==
    LET counts == get_feedback_counts(Log)
    IN \A loc \in AllLocations :
          LET c == IF loc \in DOMAIN counts THEN counts[loc] ELSE NoCounts
          IN /\ c.complaints = Cardinality(reports_of(Log, "complaint", loc))
             /\ c.suggestions = Cardinality(reports_of(Log, "suggestion", loc))

\* C1, its case: three reports were saved, a complaint and a suggestion for
\* one location and a report for another.
C1_Witness ==
    /\ Len(Log) = 3
    /\ reports_of(Log, "complaint", 1) # {}
    /\ reports_of(Log, "suggestion", 1) # {}
    /\ reports_of(Log, "complaint", 2) \cup reports_of(Log, "suggestion", 2) # {}

\* C2: no save_feedback call drops a report: every report the persisted log
\* held before the call is still in it, at its place, after the call, also
\* when the read or the write of the call fails.
C2_NoReportDropped ==
    last.op = "save_feedback" => is_prefix(last.logBefore, Log)

\* C3: report writes are serialized.  Under every interleaving of the
\* handler tasks the log holds exactly one report per submission that
\* passed validation, every save_feedback call extends the log it found by
\* its one report, and no step leaves the file half written.
C3_WritesSerialized ==
    /\ Len(Log) = accepted
    /\ started => feedbacks_file.st = "list"
    /\ last.op = "save_feedback" =>
          /\ Len(Log) = Len(last.logBefore) + 1
          /\ is_prefix(last.logBefore, Log)

\* C3, its case: the tasks of two users are suspended at the same time,
\* each after its save_feedback call, and both reports are in the log.
C3_Witness ==
    /\ \E t1, t2 \in TaskIds :
          /\ tasks[t1].pc = "confirmation" /\ tasks[t2].pc = "confirmation"
          /\ tasks[t1].user # tasks[t2].user
    /\ Len(Log) = 2
    /\ Log[1].real_user_id # Log[2].real_user_id

C5_MapShowsCurrentLog ==
    last.op = "generate_map" =>
        /\ last.path \in DOMAIN cache
        /\ LET image == cache[last.path].markers
           IN /\ DOMAIN image =
                    {loc \in coordinate_ids :
                        \E i \in 1..Len(Log) : Log[i].location_id = loc}
              /\ \A loc \in DOMAIN image :
                    /\ image[loc].complaints =
                          Cardinality(reports_of(Log, "complaint", loc))
                    /\ image[loc].suggestions =
                          Cardinality(reports_of(Log, "suggestion", loc))

\* C5, its case: a map was generated, a report was saved after it (which
\* emptied the cache), and a map was generated again.
C5_Witness ==
    /\ last.op = "generate_map"
    /\ last.cacheBefore = {}
    /\ Len(Log) >= 2
    /\ cache[last.path].markers # NoFiles

\* The report as another user would have submitted it.
submitted_by(fb, u) ==
    [fb EXCEPT !.real_user_id = u, !.real_username = Username(u)]

IdentityFields == {"real_user_id", "real_username", "from"}

\* C6: the identity of a submitter is never shown to the other users.  No
\* line of a message sent to a chat outside ADMIN_IDS holds real_user_id,
\* real_username or the "from" built of them; the lines of the public lists
\* come out the same whoever submitted the report; and /stats and /export
\* answer a sender outside ADMIN_IDS with the denial, which holds no line.
C6_IdentityHidden ==
    /\ \A m \in outbox :
          m.to \notin ADMIN_IDS =>
             /\ \A i \in 1..Len(m.lines) : DOMAIN m.lines[i] \cap IdentityFields = {}
             /\ m.kind \notin {"stats", "export", "new_feedback_admin"}
    /\ \A i \in 1..Len(Log) : \A u \in Users :
          /\ view_page_line(submitted_by(Log[i], u)) = view_page_line(Log[i])
          /\ show_all_line(submitted_by(Log[i], u)) = show_all_line(Log[i])
    /\ last.op \in {"cmd_stats", "cmd_export"} =>
          \A m \in outbox :
             m.to \notin ADMIN_IDS => m.kind = "admins_only" /\ m.lines = <<>>

\* C6, its case: a user outside ADMIN_IDS is shown a page of reports, one
\* of them submitted by the other user.
C6_Witness ==
    \E m \in outbox :
       /\ m.to = 2
       /\ m.kind = "feedbacks_page"
       /\ Len(m.lines) = 2
       /\ \E i \in 1..Len(Log) : Log[i].real_user_id = 1
       /\ \A i, j \in 1..Len(Log) : Log[i].type = Log[j].type

\* C7: a submission for a location id that no known location has is
\* rejected, so the log never holds a report for such an id.
C7_UnknownLocationRejected ==
    \A i \in 1..Len(Log) : Log[i].location_id \in Locations

\* The bounds of an accepted body, as the claim states them.
trimmed_ok(text) ==
    TextLen(Strip(text)) >= 5 /\ TextLen(Strip(text)) <= 1000

\* C8: a text whose length after trimming is outside [5,1000] is rejected
\* and nothing is appended for it; every report in the log has a trimmed
\* body of 5 to 1000 characters.
C8_BodyLengthChecked ==
    /\ (last.op \in {"save_feedback", "rejected"} /\ ~trimmed_ok(last.text)) =>
          last.op = "rejected" /\ Log = last.logBefore
    /\ \A i \in 1..Len(Log) : trimmed_ok(Log[i].text)

\* C8, its case: texts of both kinds were submitted: the log holds a body
\* of 5 and one of 1000 characters, and the text just rejected is 4
\* characters between two blanks.
C8_Witness ==
    /\ last.op = "rejected"
    /\ last.text = Text(1, 4, 1)
    /\ \E i, j \in 1..Len(Log) : Log[i].text.body = 5 /\ Log[j].text.body = 1000

\* C9: a report appended gets the id (number of reports already in the
\* log) + 1, so the k-th report of the log has id k.
C9_IdIsPosition ==
    /\ \A k \in 1..Len(Log) : Log[k].id = k
    /\ Appended => Log[Len(Log)].id = Len(last.logBefore) + 1

\* C9, its case: three reports were appended one after the other.
C9_Witness == Appended /\ Len(Log) = 3

\* C10: the public_user_id is unique per call: no two save_feedback calls
\* were given the same one, and the reports of the log have pairwise
\* distinct ones.
C10_PublicIdUnique ==
    /\ \A i, j \in 1..Len(issued) : i # j => issued[i] # issued[j]
    /\ \A i, j \in 1..Len(Log) :
          i # j => Log[i].public_user_id # Log[j].public_user_id
    /\ \A i \in 1..Len(Log) : Log[i].public_user_id = issued[i]

\* C10, its case: save_feedback was called three times.
C10_Witness == Len(issued) = 3 /\ Len(Log) = 3

\* The list with every report submitted by g[its submitter] instead.
relabelled(feedbacks, g) ==
    [i \in 1..Len(feedbacks) |-> submitted_by(feedbacks[i], g[feedbacks[i].real_user_id])]

\* C11: the public_user_id cannot be derived back to the submitter.  The
\* run in which every report is submitted by another user (any reassignment
\* g of the submitters) gives every report the public_user_id it has in
\* this run, which is a function of the length of the log alone.
C11_PublicIdNotDerivable ==
    \A i \in 1..Len(Log) :
       /\ Log[i].public_user_id = PublicIdBase + (i - 1)
       /\ \A g \in [Users -> Users] :
             LET before == relabelled(SubSeq(Log, 1, i - 1), g)
                 fb == new_feedback(before, Log[i].type, Log[i].location_id,
                                    Log[i].text, g[Log[i].real_user_id],
                                    Log[i].timestamp)
             IN fb.public_user_id = Log[i].public_user_id

\* C11, its case: the log holds reports of two different submitters.
C11_Witness ==
    /\ Len(Log) = 2
    /\ Log[1].real_user_id # Log[2].real_user_id
    /\ last.op = "save_feedback"

\* C12: the output path is unique per render: a render never writes to a
\* path at which the cache holds the artifact of another render.
C12_FilenameUnique ==
    (last.op = "generate_map" /\ last.path # NoPath) =>
        last.path \notin last.cacheBefore

\* The locations a render has to mark: those with coordinates and a report.
to_mark(feedbacks) ==
    {loc \in coordinate_ids : \E i \in 1..Len(feedbacks) : feedbacks[i].location_id = loc}
drawn_locations == {canvas.drawn[i].loc : i \in 1..Len(canvas.drawn)}

\* C13: an exception in the drawing of one marker (measuring, rectangle or
\* text) costs that marker only: with a usable base image and a write that
\* succeeds, generate_map_image returns success, the artifact is saved and
\* every other location that has reports is marked.
C13_MarkerExceptionTolerated ==
    (/\ last.op = "generate_map"
     /\ last.env.image.st \in {"ok", "not_found"}
     /\ last.env.wr = "ok"
     /\ last.env.fault # NoFault) =>
        /\ canvas.result
        /\ last.path \in DOMAIN cache
        /\ to_mark(Log) \ {last.env.fault.loc} \subseteq drawn_locations

\* C14: a failed render is not tracked: when generate_map_image fails,
\* generate_map_with_cache returns no path, the cache holds the files it
\* held before the call and none of them is an incomplete file.
C14_FailedRenderNotTracked ==
    (last.op = "generate_map" /\ ~canvas.result) =>
        /\ last.path = NoPath
        /\ DOMAIN cache = last.cacheBefore
        /\ \A n \in DOMAIN cache : cache[n].base # "partial"

\* C15: with a base image that cannot be used (absent or unreadable), a
\* placeholder that can be made, markers that draw and a write that
\* succeeds, generate_map_image returns success and the artifact saved is
\* drawn on the placeholder.
C15_PlaceholderRender ==
    (/\ last.op = "generate_map"
     /\ last.env.image.st \in {"not_found", "unreadable"}
     /\ last.env.fault = NoFault
     /\ last.env.wr = "ok") =>
        /\ canvas.result
        /\ canvas.base = "placeholder"
        /\ last.path \in DOMAIN cache
        /\ cache[last.path].base = "placeholder"

\* The markers of the picture.
Drawn == {canvas.drawn[i] : i \in 1..Len(canvas.drawn)}

\* C16: clamping invariant: for every centre, canvas size and label, the
\* background rectangle drawn lies within the canvas:
\* 0 <= x1 < x2 <= W and 0 <= y1 < y2 <= H.
C16_RectangleInsideCanvas ==
    \A m \in Drawn :
       /\ 0 <= m.rect.x1 /\ m.rect.x1 < m.rect.x2 /\ m.rect.x2 <= canvas.W
       /\ 0 <= m.rect.y1 /\ m.rect.y1 < m.rect.y2 /\ m.rect.y2 <= canvas.H

\* C17: clamping neither inverts nor resizes the rectangle: after the four
\* adjustments x1 < x2 and y1 < y2, and the width and the height are those
\* of the rectangle computed before them.
C17_ClampingKeepsSize ==
    \A m \in Drawn :
       /\ m.rect.x1 < m.rect.x2
       /\ m.rect.y1 < m.rect.y2
       /\ m.rect.x2 - m.rect.x1 = m.before.x2 - m.before.x1
       /\ m.rect.y2 - m.rect.y1 = m.before.y2 - m.before.y1

\* C17, its case: a rectangle that was moved along both axes, to the right
\* and back to the left along x.
C17_Witness ==
    \E m \in Drawn :
       /\ m.before.x1 < 10
       /\ m.rect.x2 = canvas.W - 10
       /\ m.rect.y1 # m.before.y1

\* What the texts of a marker show: part, numbers and colour of each text
\* drawn after the background, in the order drawn.
label_of(m) ==
    [i \in 1..(Len(m.calls) - 1) |->
        [part |-> m.calls[i + 1].part, value |-> m.calls[i + 1].value,
         colour |-> m.calls[i + 1].colour]]
segment(part, value, colour) == [part |-> part, value |-> value, colour |-> colour]

\* C18: in the picture a render has just made, every location with a
\* coordinate entry has a marker iff the log holds a complaint or a
\* suggestion for it, and the label follows the table: complaints only ->
\* their number in the complaint colour; suggestions only -> their number
\* in the suggestion colour; both -> complaints "/" suggestions.
C18_LabelDecisionTable ==
    last.op = "generate_map" =>
        \A loc \in coordinate_ids :
           LET nc == Cardinality(reports_of(Log, "complaint", loc))
               ns == Cardinality(reports_of(Log, "suggestion", loc))
               at == {i \in 1..Len(canvas.drawn) : canvas.drawn[i].loc = loc}
           IN /\ Cardinality(at) = IF nc > 0 \/ ns > 0 THEN 1 ELSE 0
              /\ \A i \in at :
                    /\ canvas.drawn[i].calls[1].call = "rectangle"
                    /\ label_of(canvas.drawn[i]) =
                          IF nc > 0 /\ ns > 0
                          THEN <<segment("complaints", <<nc>>, ComplaintColour),
                                 segment("separator", <<>>, SeparatorColour),
                                 segment("suggestions", <<ns>>, SuggestionColour)>>
                          ELSE IF nc > 0
                          THEN <<segment("complaints", <<nc>>, ComplaintColour)>>
                          ELSE <<segment("suggestions", <<ns>>, SuggestionColour)>>

\* C18, its case: a map with a dual label at one location and a single
\* number of suggestions at the other.
C18_Witness ==
    /\ last.op = "generate_map"
    /\ \E m \in Drawn : m.label = "dual"
    /\ \E m \in Drawn : m.label = "suggestions"

\* C19: a dual label is the background rectangle followed by three texts,
\* drawn in the order complaints, separator, suggestions and placed from
\* left to right in that order on one line; the three colours are pairwise
\* different.
C19_DualLabelSegments ==
    \A m \in Drawn :
       m.label = "dual" =>
          /\ Len(m.calls) = 4
          /\ m.calls[1].call = "rectangle"
          /\ \A i \in 2..4 : m.calls[i].call = "text"
          /\ <<m.calls[2].part, m.calls[3].part, m.calls[4].part>> =
                <<"complaints", "separator", "suggestions">>
          /\ m.calls[2].x < m.calls[3].x /\ m.calls[3].x < m.calls[4].x
          /\ m.calls[2].y = m.calls[3].y /\ m.calls[3].y = m.calls[4].y
          /\ m.calls[2].colour # m.calls[3].colour
          /\ m.calls[3].colour # m.calls[4].colour
          /\ m.calls[2].colour # m.calls[4].colour

\* C19, its case: the label "100/1" drawn at a centre far outside the
\* canvas, so that it was moved.
C19_Witness ==
    \E m \in Drawn :
       /\ m.label = "dual"
       /\ m.calls[2].value = <<100>> /\ m.calls[4].value = <<1>>
       /\ m.rect # m.before

C22_CleanupNoOp ==
    (/\ last.op \in {"cleanup_old_cache", "cleanup_cache_completely"}
     /\ last.cacheBefore = {}) =>
        /\ ~last.raised
        /\ cache = NoFiles
        /\ cache_dir = last.dirBefore

\* C22, its case: cleanup_old_cache ran with the directory missing.
C22_Witness ==
    /\ last.op = "cleanup_old_cache"
    /\ ~last.dirBefore
    /\ ~cache_dir

\* A list that is not a list of reports.
Malformed(feedbacks) ==
    \E i \in 1..Len(feedbacks) :
        "location_id" \notin DOMAIN feedbacks[i] \/ "type" \notin DOMAIN feedbacks[i]

\* C23: a reports file that does not parse, or that parses to something
\* that is not a list of reports, never makes get_feedbacks,
\* get_feedback_counts or save_feedback raise, and the store behaves as the
\* empty collection: a render draws no marker and the next report saved is
\* the first one.
C23_MalformedAsEmpty ==
    /\ ~last.raised
    /\ (last.op = "generate_map" /\ (feedbacks_file.st = "corrupt" \/ Malformed(Log))) =>
          canvas.drawn = <<>>
    /\ (last.op = "save_feedback" /\ Malformed(last.logBefore)) =>
          Len(Log) = 1 /\ Log[1].id = 1

\* The recency order: descending timestamp, equal timestamps by descending
\* id.
recency_order(feedbacks) ==
    LET n == Len(feedbacks)
        before(j, i) ==
            \/ feedbacks[j].timestamp > feedbacks[i].timestamp
            \/ /\ feedbacks[j].timestamp = feedbacks[i].timestamp
               /\ feedbacks[j].id > feedbacks[i].id
        place(i) == 1 + Cardinality({j \in 1..n : before(j, i)})
    IN [k \in 1..n |-> feedbacks[CHOOSE i \in 1..n : place(i) = k]]

\* C24: the lists of show_all_feedbacks and cmd_stats show the reports in
\* descending order of timestamp, reports with equal timestamps in
\* descending order of id.
C24_RecencyOrder ==
    /\ last.op = "cmd_stats" =>
          \A m \in outbox :
             m.kind = "stats" =>
                m.lines = admin_lines(first_n(recency_order(Log), 5))
    /\ last.op = "show_all_feedbacks" =>
          \A m \in outbox :
             m.kind = "all_feedbacks" =>
                \E ty \in Types :
                   m.lines = show_all_lines(first_n(recency_order(
                                SelectSeq(Log, LAMBDA fb : fb.type = ty)), 10))

\* C25: anonymize_text is idempotent: applied with the same max_length to
\* the text it returned, it returns that text again, cut texts included.
C25_AnonymizeIdempotent ==
    Len(anonymized.texts) = 3 => anonymized.texts[3] = anonymized.texts[2]

\* C26: the text anonymize_text returns is never longer than max_length
\* plus the three characters of "...", also when the marks put in for
\* handles and links made the text longer.
C26_AnonymizedLength ==
    \A i \in 2..Len(anonymized.texts) :
       text_length(anonymized.texts[i]) <= anonymized.max_length + 3

\* C26, its case: a text within the limit that a mark made longer than the
\* limit, and that was cut.
C26_Witness ==
    /\ Len(anonymized.texts) >= 2
    /\ text_length(anonymized.texts[1]) <= anonymized.max_length
    /\ \E i \in 1..Len(anonymized.texts[1]) : anonymized.texts[1][i] = "@"
    /\ text_length(anonymized.texts[2]) = anonymized.max_length + 3

\* C27: load_coordinates never rewrites existing coordinate data: when the
\* coordinates file exists, the call leaves its content as it was, returns
\* every persisted entry unchanged, and adds an entry only for the known
\* locations that have none.
C27_CoordinatesNotRewritten ==
    (last.op \in {"main", "generate_map"} /\ last.coordinatesBefore.st # "absent") =>
        /\ coordinates_file = last.coordinatesBefore
        /\ last.coordinatesBefore.st = "list" =>
              LET persisted == last.coordinatesBefore.data
              IN /\ \A l \in DOMAIN persisted : load_coordinates[l] = persisted[l]
                 /\ DOMAIN load_coordinates = DOMAIN persisted \cup Locations

\* C27, its case: a map was drawn from a file that an operator has tuned
\* and that has no entry for location 2, with a marker for location 2.
C27_Witness ==
    /\ last.op = "generate_map"
    /\ last.coordinatesBefore = CoordinatesFile(TunedCoordinates)
    /\ load_coordinates[1] = TunedCoordinates[1]
    /\ \E i \in 1..Len(canvas.drawn) : canvas.drawn[i].loc = 2

\* C28: a known location without a coordinate entry is given the centre of
\* the image it is drawn on: (W/2, H/2) on a canvas of W x H, which is where
\* its label is laid out.
C28_DefaultAtCentre ==
    (last.op = "generate_map" /\ last.coordinatesBefore.st = "list") =>
        \A i \in 1..Len(canvas.drawn) :
           LET m == canvas.drawn[i]
           IN m.loc \notin DOMAIN last.coordinatesBefore.data =>
                 /\ load_coordinates[m.loc] =
                       [x |-> canvas.W \div 2, y |-> canvas.H \div 2]
                 /\ m.before.x1 + m.before.x2 = 2 * (canvas.W \div 2)
                 /\ m.before.y1 + m.before.y2 = 2 * (canvas.H \div 2)

\* C29: get_feedback_counts has an entry for a location exactly when the
\* log holds a report for it, so none for an empty log; and a map generated
\* from an empty log is made and saved, with no marker on it.
C29_NoReportsNoEntries ==
    /\ \A loc \in AllLocations :
          loc \in DOMAIN get_feedback_counts(Log) <=>
             \E i \in 1..Len(Log) : Log[i].location_id = loc
    /\ Log = <<>> => DOMAIN get_feedback_counts(Log) = {}
    /\ (last.op = "generate_map" /\ Log = <<>>) =>
          /\ last.path # NoPath
          /\ last.path \in DOMAIN cache
          /\ canvas.result
          /\ canvas.drawn = <<>>
          /\ DOMAIN cache[last.path].markers = {}

\* C29, its case: a map was generated while the log was empty.
C29_Witness ==
    /\ last.op = "generate_map"
    /\ feedbacks_file = FileList(<<>>)
    /\ last.path \in DOMAIN cache
    /\ canvas.base = "map"

\* C30: one accepted submission creates exactly one report: a step appends
\* a report for a user only if that user has chosen a type and a location
\* since the last report appended for them, whatever else was handled while
\* enter_feedback_text was waiting for its confirmation to be sent.
C30_OneSubmissionOneReport ==
    [][Len(Log') > Len(Log) => chosen[Log'[Len(Log')].real_user_id]]_vars

\* C31: the file whose path generate_map_with_cache returned to
\* view_feedbacks is still in the cache, and still shows the counts of the
\* log as it is, when send_photo uploads it.
C31_SentMapCurrent ==
    last.op = "send_photo" =>
        /\ last.path \in DOMAIN cache
        /\ cache[last.path].markers = markers(get_feedback_counts(Log))

\* C32: a report is appended only by a text message of a user whose state
\* is entering_text, and it carries the type and the location held in that
\* user's state data; a user's state becomes entering_text, or its data
\* change while it is, only by add_<kind>_loc_<id>, which sets both.  In no
\* other state does a text message change the log.
C32_AppendOnlyWhenEntering ==
    [][/\ Len(Log') > Len(Log) =>
            /\ Len(Log') = Len(Log) + 1
            /\ LET fb == Log'[Len(Log')]
                   u == fb.real_user_id
               IN /\ fsm[u].state = "entering_text"
                  /\ fb.type = fsm[u].data.feedback_type
                  /\ fb.location_id = fsm[u].data.location_id
       /\ \A u \in Users :
            (fsm'[u].state = "entering_text" /\ fsm'[u] # fsm[u]) =>
                \E ty \in Types, loc \in Locations :
                    AddFeedbackToLocation(u, ty, loc)
       /\ last'.op = "unhandled_text" => Log' = Log]_vars

\* C32, its case: a suggestion for location 2 was chosen and the text sent
\* next was appended; the sender is still in entering_text.
C32_Witness ==
    /\ last.op = "save_feedback"
    /\ Len(Log) = 1
    /\ Log[1].type = "suggestion"
    /\ Log[1].location_id = 2
    /\ fsm[Log[1].real_user_id] =
          [state |-> "entering_text",
           data |-> [feedback_type |-> "suggestion", location_id |-> 2]]

\* C33: enter_feedback_text sends the "saved" confirmation only for a report
\* that is in the reports file: when the message is in the outbox the file
\* is a list whose last report is the one just submitted.
C33_ConfirmedOnlyIfPersisted ==
    (/\ last.op = "save_feedback"
     /\ \E m \in outbox : m.kind = "saved") =>
        /\ feedbacks_file.st = "list"
        /\ Log # <<>>
        /\ Log[Len(Log)].text = Strip(last.text)
        /\ Log[Len(Log)].timestamp = now

\* C34: a step in which enter_feedback_text rejects a text as too short or
\* too long changes neither the reports file nor the cache nor the state of
\* any user: the sender is in entering_text with the type and the location
\* held before, which is where a text within the limits is accepted.
C34_RejectionChangesNothing ==
    [][(/\ \E text \in RejectedTexts :
              EnterFeedbackText(2, text, MaxSubmissions, "ok", "ok", "ok")
        /\ \E m \in outbox' : m.kind \in {"too_short", "too_long"}) =>
            /\ feedbacks_file' = feedbacks_file
            /\ cache' = cache
            /\ accepted' = accepted
            /\ fsm' = fsm
            /\ fsm'[2].state = "entering_text"
            /\ fsm'[2].data.feedback_type \in Types
            /\ fsm'[2].data.location_id \in Locations]_vars

\* C34, its case: a text was rejected as too long while the log held a
\* report and the cache a map of it.
C34_Witness ==
    /\ last.op = "rejected"
    /\ last.text = Text(1, MaxTextLen, 0)
    /\ \E m \in outbox : m.kind = "too_long"
    /\ Len(Log) = 1
    /\ cache # NoFiles
    /\ fsm[2] = [state |-> "entering_text",
                 data |-> [feedback_type |-> "suggestion", location_id |-> 2]]

\* C35: a text whose body after trimming has 5 to 1000 characters, sent for
\* a known location, is accepted and appended as one report holding the
\* trimmed body, whatever whitespace surrounds it.
C35_TrimmedBodyAccepted ==
    (/\ last.op \in {"save_feedback", "rejected"}
     /\ trimmed_ok(last.text)) =>
        /\ last.op = "save_feedback"
        /\ Len(Log) = Len(last.logBefore) + 1
        /\ Log[Len(Log)].text = Strip(last.text)

\* C36: the boundary tests move a rectangle by the least offset: a
\* rectangle whose left (top) edge was below 10 is drawn with that edge at
\* 10, one whose right (bottom) edge was beyond W-10 (H-10) with that edge
\* at W-10 (H-10), and the text of a single label stays at the middle of
\* its rectangle.
C36_ClampedToMargin ==
    \A m \in Drawn :
       /\ m.before.x1 < 10 => m.rect.x1 = 10
       /\ m.before.y1 < 10 => m.rect.y1 = 10
       /\ m.before.x2 > canvas.W - 10 => m.rect.x2 = canvas.W - 10
       /\ m.before.y2 > canvas.H - 10 => m.rect.y2 = canvas.H - 10
       /\ m.label # "dual" =>
             /\ 2 * m.calls[2].x = m.rect.x1 + m.rect.x2
             /\ 2 * m.calls[2].y = m.rect.y1 + m.rect.y2

\* C37: a draw.textbbox that raises does not stop a marker: where the only
\* step that can raise is the measuring, the body of the loop raises for no
\* label shape, and the marker drawn has a rectangle wider and higher than
\* twice the padding.
C37_MeasureFailureEstimated ==
    canvas # NoCanvas =>
        /\ canvas.result
        /\ \A m \in Drawn :
              /\ m.sep_h # Unbound \/ m.label # "dual"
              /\ m.rect.x2 - m.rect.x1 > 2 * padding(canvas.W, canvas.H)
              /\ m.rect.y2 - m.rect.y1 > 2 * padding(canvas.W, canvas.H)

\* C38: the centre used for a label is clamped 50 px into the canvas: for
\* every configured (x, y) and every canvas size W x H,
\* 50 <= x <= W-50 and 50 <= y <= H-50.
C38_CentreInsideCanvas ==
    \A m \in Drawn :
       LET x == (m.before.x1 + m.before.x2) \div 2
           y == (m.before.y1 + m.before.y2) \div 2
       IN /\ 50 <= x /\ x <= canvas.W - 50
          /\ 50 <= y /\ y <= canvas.H - 50

\* The reports of the log with the type and the location of a page, in the
\* order of the log, and the number of pages of n reports: ceil(n / 5).
matching(ty, loc) ==
    SelectSeq(Log, LAMBDA fb : fb.type = ty /\ fb.location_id = loc)
pages_of(n) == CHOOSE k \in 0..n : 5 * (k - 1) < n /\ n <= 5 * k
buttons_of(m) == {m.keyboard[i].button : i \in 1..Len(m.keyboard)}

\* C39: a page of view_feedbacks_by_type for n >= 1 matching reports shows
\* page p = clamp(asked, 1, ceil(n/5)), that is the reports at positions
\* 5(p-1)+1 .. min(5p, n) of the matching ones in the order of the log,
\* numbered from 5(p-1)+1; the pages 1 .. ceil(n/5) hold every matching
\* report exactly once; the keyboard has "previous" (to p-1) iff p > 1 and
\* "next" (to p+1) iff p < ceil(n/5).
C39_Pagination ==
    \A m \in outbox :
       m.kind = "feedbacks_page" =>
          LET ty == m.keyboard[1].feedback_type
              loc == m.keyboard[1].location_id
              f == matching(ty, loc)
              n == Len(f)
              P == pages_of(n)
              p == m.page
              upto == IF 5 * p < n THEN 5 * p ELSE n
          IN /\ n >= 1
             /\ m.pages = P
             /\ p = (IF m.asked < 1 THEN 1 ELSE IF m.asked > P THEN P ELSE m.asked)
             /\ m.first = 5 * (p - 1) + 1
             /\ Len(m.lines) = upto - 5 * (p - 1)
             /\ \A i \in 1..Len(m.lines) :
                   m.lines[i] = view_page_line(f[5 * (p - 1) + i])
             /\ \A j \in 1..n :
                   Cardinality({qi \in (1..P) \X (1..5) :
                       /\ qi[2] <= Len(page_feedbacks(f, qi[1]))
                       /\ page_feedbacks(f, qi[1])[qi[2]] = f[j]}) = 1
             /\ "previous" \in buttons_of(m) <=> p > 1
             /\ "next" \in buttons_of(m) <=> p < P
             /\ \A i \in 1..Len(m.keyboard) :
                   /\ m.keyboard[i].button = "previous" => m.keyboard[i].page = p - 1
                   /\ m.keyboard[i].button = "next" => m.keyboard[i].page = p + 1

\* C39, its case: eleven complaints of location 1 among other reports, and
\* a page beyond the last asked for: the third page, with the eleventh
\* complaint alone.
C39_Witness ==
    \E m \in outbox :
       /\ m.kind = "feedbacks_page"
       /\ m.asked = 4
       /\ m.page = 3
       /\ m.first = 11
       /\ Len(m.lines) = 1
       /\ Len(matching("complaint", 1)) = 11
       /\ Len(Log) > 11

====
